---- MODULE Spec2Model ----
(***************************************************************************)
(* A model of the news crawling pipeline: the rate-limited fetcher         *)
(* (src/src/utils/http.py), the list, detail and datetime parsers          *)
(* (src/src/crawlers/naver.py), the persistence gateway                    *)
(* (src/backend/app/repository/news_repository.py) and the multi-category  *)
(* crawl service (src/backend/app/service/news_service.py).                *)
(*                                                                         *)
(* Each component has its own specification over its own variables; the   *)
(* variables of the other components stay at their initial values.         *)
(***************************************************************************)
EXTENDS Integers, Sequences, FiniteSets, TLC

(***************************************************************************)
(* Shared values.                                                          *)
(***************************************************************************)

\* Python's None.
Absent == "None"

(***************************************************************************)
(* HttpClient (src/src/utils/http.py).                                     *)
(***************************************************************************)

VARIABLES
    client,        \* self._client is set (the connection pool is held)
    max_retries,   \* self.max_retries
    hpc,           \* position of the one caller of get: idle, loop, returned, raised
    attempt,       \* the loop variable of get
    trace,         \* what get did so far: requests (with outcome) and sleeps
    hresult,       \* the value get returned
    hraised,       \* the exception get raised
    calls,         \* how many calls of get were started
    scoped         \* the pool was held when the current call of get began

httpVars == <<client, max_retries, hpc, attempt, trace, hresult, hraised, calls, scoped>>

\* The largest max_retries a client is constructed with (the default is 3).
MaxRetriesBound == 3
\* How many calls of get one client serves in a behaviour.
MaxCalls == 2

\* HttpClient.__init__: request_delay, in time-units.
request_delay == 1

\* The response bodies a server may send.
Bodies == {"html1", "html2"}

\* What one request can end in: a 2xx response, raise_for_status raising
\* HTTPStatusError (429, >= 500, any other status), the transport raising
\* ConnectError or TimeoutException, or any other exception.
Outcomes == {"2xx", "429", "5xx", "4xx", "ConnectError", "TimeoutException", "Exception"}

Request(o, b) == [ev |-> "request", outcome |-> o, body |-> b]
Sleep(why, d) == [ev |-> "sleep", why |-> why, dur |-> d]

\* The random delay before every attempt but the first.
JitterSleep(a) == IF a > 0 THEN <<Sleep("jitter", request_delay)>> ELSE <<>>

HttpInit ==
    /\ client = FALSE
    /\ max_retries \in 0..MaxRetriesBound
    /\ hpc = "idle"
    /\ attempt = 0
    /\ trace = <<>>
    /\ hresult = Absent
    /\ hraised = Absent
    /\ calls = 0
    /\ scoped = FALSE

\* async with HttpClient() as http: the pool is created.
AEnter ==
    /\ hpc # "loop"
    /\ ~client
    /\ client' = TRUE
    /\ UNCHANGED <<max_retries, hpc, attempt, trace, hresult, hraised, calls, scoped>>

\* Leaving the scope: the pool is closed and forgotten.
AExit ==
    /\ hpc # "loop"
    /\ client
    /\ client' = FALSE
    /\ UNCHANGED <<max_retries, hpc, attempt, trace, hresult, hraised, calls, scoped>>

\* get is called: outside the scope it raises RuntimeError, inside it enters
\* the retry loop.
GetCall ==
    /\ hpc # "loop"
    /\ calls < MaxCalls
    /\ calls' = calls + 1
    /\ attempt' = 0
    /\ trace' = <<>>
    /\ hresult' = Absent
    /\ scoped' = client
    /\ IF client
         THEN hpc' = "loop" /\ hraised' = Absent
         ELSE hpc' = "raised" /\ hraised' = "RuntimeError"
    /\ UNCHANGED <<client, max_retries>>

\* What get does after a request of this attempt ended in outcome o:
\* [sleeps, next], next being "return" (with the body), "none" (return None),
\* "raise" or "retry".
GenericHandlerReraise(o) == [sleeps |-> <<>>, next |-> "raise"]

\* except Exception: return None
GenericHandler(o) == [sleeps |-> <<>>, next |-> "none"]

HandleFlatBackoff(o, a) ==
    CASE o = "2xx" -> [sleeps |-> <<>>, next |-> "return"]
      [] o \in {"429", "5xx"} -> [sleeps |-> <<Sleep(o, request_delay * 5)>>, next |-> "retry"]
      [] o = "4xx" -> [sleeps |-> <<>>, next |-> "none"]
      [] o \in {"ConnectError", "TimeoutException"} ->
            [sleeps |-> IF a < max_retries - 1
                          THEN <<Sleep("transport", request_delay * (a + 1))>>
                          ELSE <<>>,
             next |-> "retry"]
      [] OTHER -> GenericHandler(o)

HandleRetryClientError(o, a) ==
    CASE o = "2xx" -> [sleeps |-> <<>>, next |-> "return"]
      [] o = "429" -> [sleeps |-> <<Sleep("429", (a + 1) * 5)>>, next |-> "retry"]
      [] o \in {"5xx", "4xx"} -> [sleeps |-> <<Sleep("5xx", request_delay)>>, next |-> "retry"]
      [] o \in {"ConnectError", "TimeoutException"} ->
            [sleeps |-> IF a < max_retries - 1
                          THEN <<Sleep("transport", request_delay * (a + 1))>>
                          ELSE <<>>,
             next |-> "retry"]
      [] OTHER -> GenericHandler(o)

\* The except clauses of get, for the outcome o of attempt a.
Handle(o, a) ==
    CASE o = "2xx" -> [sleeps |-> <<>>, next |-> "return"]
      [] o = "429" -> [sleeps |-> <<Sleep("429", (a + 1) * 5)>>, next |-> "retry"]
      [] o = "5xx" -> [sleeps |-> <<Sleep("5xx", request_delay)>>, next |-> "retry"]
      [] o = "4xx" -> [sleeps |-> <<>>, next |-> "none"]
      [] o \in {"ConnectError", "TimeoutException"} ->
            [sleeps |-> IF a < max_retries - 1
                          THEN <<Sleep("transport", request_delay * (a + 1))>>
                          ELSE <<>>,
             next |-> "retry"]
      [] OTHER -> GenericHandler(o)

LoopContinuesOffByOne(a) == a <= max_retries

\* Whether the for loop runs another iteration: range(self.max_retries).
LoopContinues(a) == a < max_retries

\* One iteration of the for loop: the jitter sleep, the request, and the
\* handling of its outcome.
Attempt ==
    /\ hpc = "loop"
    /\ LoopContinues(attempt)
    /\ \E o \in Outcomes, b \in Bodies :
         LET h == Handle(o, attempt)
             body == IF o = "2xx" THEN b ELSE Absent
         IN  /\ trace' = trace \o JitterSleep(attempt) \o <<Request(o, body)>> \o h.sleeps
             /\ CASE h.next = "return" ->
                       hpc' = "returned" /\ hresult' = body /\ UNCHANGED <<attempt, hraised>>
                  [] h.next = "none" ->
                       hpc' = "returned" /\ hresult' = Absent /\ UNCHANGED <<attempt, hraised>>
                  [] h.next = "raise" ->
                       hpc' = "raised" /\ hraised' = o /\ UNCHANGED <<attempt, hresult>>
                  [] OTHER ->
                       attempt' = attempt + 1 /\ UNCHANGED <<hpc, hresult, hraised>>
    /\ UNCHANGED <<client, max_retries, calls, scoped>>

\* The exhausted loop never reaches the return statement after it.
ExhaustedSpins ==
    /\ hpc = "loop"
    /\ ~LoopContinues(attempt)
    /\ UNCHANGED httpVars

\* The loop is exhausted: return None.
Exhausted ==
    /\ hpc = "loop"
    /\ ~LoopContinues(attempt)
    /\ hpc' = "returned"
    /\ hresult' = Absent
    /\ UNCHANGED <<client, max_retries, attempt, trace, hraised, calls, scoped>>

\* The requests get issued so far in this call, in order.
Requests == SelectSeq(trace, LAMBDA e : e.ev = "request")

RequestOutcomes == [i \in 1..Len(Requests) |-> Requests[i].outcome]

\* C4: one call of get issues at most max_retries requests and returns the
\* body of the first 2xx response it receives (None when it receives none);
\* with max_retries = 3 the responses 429, 429, 200 give the 200 body, and
\* an endpoint that always answers 429 gives None after exactly 3 requests.
FetcherRetryBudget ==
    /\ Len(Requests) <= max_retries
    /\ hpc = "returned" =>
         LET ok == {i \in 1..Len(Requests) : Requests[i].outcome = "2xx"}
         IN  /\ ok # {} =>
                   hresult = Requests[CHOOSE i \in ok : \A k \in ok : i <= k].body
             /\ ok = {} => hresult = Absent
             /\ (max_retries = 3 /\ RequestOutcomes = <<"429", "429", "2xx">>) =>
                   hresult = Requests[3].body /\ hresult \in Bodies
             /\ (max_retries = 3 /\ \A i \in 1..Len(Requests) : Requests[i].outcome = "429") =>
                   Len(Requests) = 3 /\ hresult = Absent

FetcherRetryBudgetWitness ==
    /\ hpc = "returned"
    /\ max_retries = 3
    /\ RequestOutcomes = <<"429", "429", "2xx">>
    /\ hresult = "html2"

\* C5: a call of get made while the pool is held never raises: whatever the
\* requests end in, it returns a response body or None.
GetNeverRaisesInScope ==
    /\ scoped => hpc # "raised"
    /\ (scoped /\ hpc = "returned") => hresult \in Bodies \cup {Absent}

GetNeverRaisesWitness ==
    /\ scoped
    /\ hpc = "returned"
    /\ hresult = Absent
    /\ RequestOutcomes = <<"TimeoutException", "5xx", "Exception">>

\* The attempt index of the latest request among the first i entries of
\* the trace.
AttemptIndexAt(i) == Cardinality({k \in 1..i : trace[k].ev = "request"}) - 1

\* The i-th entry of the trace is a request answered with 429 or >= 500.
BackedOff(i) == trace[i].ev = "request" /\ trace[i].outcome \in {"429", "5xx"}

\* The sleep get takes after the request at entry i.
BackoffSleep(i) ==
    IF trace[i].outcome = "429" THEN Sleep("429", (AttemptIndexAt(i) + 1) * 5)
    ELSE Sleep("5xx", request_delay)

\* C20 as stated: after a 429 at attempt index i get sleeps (i+1)*5, after a
\* status >= 500 it sleeps request_delay, and every such sleep is followed by
\* a retry request, the one of the last attempt of the budget included.
BackoffAlwaysRetries ==
    \A i \in 1..Len(trace) :
        BackedOff(i) =>
            /\ i < Len(trace)
            /\ trace[i + 1] = BackoffSleep(i)
            /\ hpc # "loop" => \E j \in (i + 2)..Len(trace) : trace[j].ev = "request"

\* C20: after a 429 at attempt index i get sleeps (i+1)*5, after a status
\* >= 500 it sleeps request_delay; the sleep is followed by the jitter sleep
\* and a retry request when an attempt is left in the budget, and at the
\* last attempt of the budget the sleep is still taken and get then returns
\* None without another request.
BackoffThenRetry ==
    \A i \in 1..Len(trace) :
        BackedOff(i) =>
            /\ i < Len(trace)
            /\ trace[i + 1] = BackoffSleep(i)
            /\ IF AttemptIndexAt(i) < max_retries - 1
                 THEN /\ hpc # "loop" => i + 1 < Len(trace)
                      /\ i + 1 < Len(trace) =>
                           /\ i + 3 <= Len(trace)
                           /\ trace[i + 2] = Sleep("jitter", request_delay)
                           /\ trace[i + 3].ev = "request"
                 ELSE /\ i + 1 = Len(trace)
                      /\ hpc = "returned" => hresult = Absent

\* The budget of 3 is used up by 429, 5xx, 429: the sleeps are 5, 1 and 15,
\* and after the last one get returned None.
BackoffThenRetryWitness ==
    /\ hpc = "returned"
    /\ max_retries = 3
    /\ RequestOutcomes = <<"429", "5xx", "429">>
    /\ hresult = Absent
    /\ trace = <<Request("429", Absent), Sleep("429", 5),
                 Sleep("jitter", request_delay), Request("5xx", Absent), Sleep("5xx", request_delay),
                 Sleep("jitter", request_delay), Request("429", Absent), Sleep("429", 15)>>

\* C21: a request answered with an HTTP error status other than 429 and
\* below 500 ends the call: get returns None at once, with no sleep and no
\* request after that response, whatever is left of the retry budget.
NonTransientFailsAtOnce ==
    \A i \in 1..Len(trace) :
        (trace[i].ev = "request" /\ trace[i].outcome = "4xx") =>
            /\ i = Len(trace)
            /\ hpc = "returned"
            /\ hresult = Absent

\* The first of three attempts is answered 404-like: get returned None
\* after that single request, two attempts unused.
NonTransientFailsAtOnceWitness ==
    /\ max_retries = 3
    /\ hpc = "returned"
    /\ hresult = Absent
    /\ attempt = 0
    /\ trace = <<Request("4xx", Absent)>>

(***************************************************************************)
(* NaverNewsCrawler._parse_article_list (src/src/crawlers/naver.py).       *)
(*                                                                         *)
(* A listing document is what the selectors see of it: `areas`, the        *)
(* headline/cluster containers in document order, each with the title-like *)
(* links found inside it (a container nested in another one shows the same *)
(* links again), and `items`, the list items in document order, each with  *)
(* the first title/headline link inside it, or NoLink.                     *)
(*                                                                         *)
(* An href is [form, host, path]: "absolute" (https://host/path), "rooted" *)
(* (/path), "schemeless" (//host/path) or "empty"; path is an article      *)
(* number and query the text after "?".                                    *)
(***************************************************************************)

VARIABLES
    doc,       \* the listing document handed to _parse_article_list
    lpc,       \* "input" before the call, "parsed" after it
    listing    \* the returned list

listVars == <<doc, lpc, listing>>

\* BASE_URL is https://news.naver.com
NewsHost == "news.naver.com"
\* articles[:20]
ListCap == 20

\* Links of the freely chosen head of pass 1.
MaxHead == 2
\* Links of the freely chosen head of pass 2.
MaxItems == 1
\* Distinct valid links that may follow the head (the cap is reached with
\* PadLen + MaxHead > ListCap).
PadLen == 19

MentionQuery == "u=news.naver.com"

Href(form, host, path, query) ==
    [form |-> form, host |-> host, path |-> path, query |-> query]
Link(href, title) == [href |-> href, title |-> title]
\* select_one found no link in the item.
NoLink == [nolink |-> TRUE]

\* link.get("href", "") is empty.
EmptyHref == Href("empty", "", 0, "")

\* urljoin(BASE_URL, href) for an href that starts with "/".
UrlJoin(href) ==
    IF href.form = "rooted" THEN Href("absolute", NewsHost, href.path, href.query)
    ELSE IF href.form = "schemeless" THEN Href("absolute", href.host, href.path, href.query)
    ELSE href

StartsWithSlash(href) == href.form \in {"rooted", "schemeless"}

\* "news.naver.com" in href
MentionsNewsHost(href) == href.host = NewsHost \/ href.query = MentionQuery

\* The entry the loop body appends for one link, as a sequence of zero or
\* one entries.
Candidate(link, category) ==
    IF link.href = EmptyHref \/ link.title = "" THEN <<>>
    ELSE LET href == IF StartsWithSlash(link.href) THEN UrlJoin(link.href) ELSE link.href
         IN  IF MentionsNewsHost(href)
               THEN <<[title |-> link.title, url |-> href, category |-> category]>>
               ELSE <<>>

Urls(articles) == {articles[i].url : i \in 1..Len(articles)}

\* Pass 1 over one area's links: every candidate is appended.
RECURSIVE PassOneLinks(_, _, _)
PassOneLinks(articles, links, category) ==
    IF links = <<>> THEN articles
    ELSE PassOneLinks(articles \o Candidate(Head(links), category), Tail(links), category)

RECURSIVE PassOne(_, _, _)
PassOne(articles, areas, category) ==
    IF areas = <<>> THEN articles
    ELSE PassOne(PassOneLinks(articles, Head(areas), category), Tail(areas), category)

\* Pass 2 over the list items: a candidate is appended unless its URL is
\* already among the collected ones.
RECURSIVE PassTwo(_, _, _)
PassTwo(articles, items, category) ==
    IF items = <<>> THEN articles
    ELSE LET link == Head(items)
             c == IF link = NoLink THEN <<>> ELSE Candidate(link, category)
             keep == IF c # <<>> /\ c[1].url \notin Urls(articles) THEN c ELSE <<>>
         IN  PassTwo(articles \o keep, Tail(items), category)

\* The list before truncation.
CollectCandidates(d, category) ==
    PassTwo(PassOne(<<>>, d.areas, category), d.items, category)

TruncateLast(articles) ==
    IF Len(articles) <= ListCap THEN articles
    ELSE SubSeq(articles, Len(articles) - ListCap + 1, Len(articles))

\* articles[:20]
Truncate(articles) ==
    IF Len(articles) <= ListCap THEN articles ELSE SubSeq(articles, 1, ListCap)

_parse_article_list(d, category) == Truncate(CollectCandidates(d, category))

\* The links a document's freely chosen head is made of: two spellings of
\* one article URL, a second article, a link to another site, a link to
\* another site that names the news host in its query, a link without text.
HeadLinks ==
    { Link(Href("absolute", NewsHost, 1, ""), "t1"),
      Link(Href("rooted", "", 1, ""), "t1b"),
      Link(Href("absolute", NewsHost, 2, ""), "t2"),
      Link(Href("absolute", "ads.example.com", 3, ""), "ad"),
      Link(Href("absolute", "ads.example.com", 3, MentionQuery), "ad2"),
      Link(Href("absolute", NewsHost, 4, ""), "") }

ItemLinks ==
    { Link(Href("absolute", NewsHost, 1, ""), "t1"),
      Link(Href("rooted", "", 2, ""), "t2b"),
      NoLink }

SeqsUpTo(S, n) == UNION {[1..k -> S] : k \in 0..n}

\* n further links, each a distinct article of the news host, numbered from
\* `from`.
Pad(from, n) == [i \in 1..n |-> Link(Href("absolute", NewsHost, from + i, ""), "pad")]

\* The documents of the model: a head of up to `head` (pass 1) or `items`
\* (pass 2) arbitrary links followed by none or `pad` distinct valid links, in pass 1 and in pass 2
\* (the links of pass 2 being those of pass 1 or others); `nested` wraps
\* the one area in a second container, which yields its links once more.
Documents(head, items, pad) ==
    { [areas |-> IF nested THEN <<h1 \o Pad(100, p1), h1 \o Pad(100, p1)>>
                           ELSE <<h1 \o Pad(100, p1)>>,
       items |-> h2 \o Pad(100 + o2, p2)] :
        h1 \in SeqsUpTo(HeadLinks, head), h2 \in SeqsUpTo(ItemLinks, items),
        nested \in BOOLEAN, p1 \in {0, pad}, p2 \in {0, pad}, o2 \in {0, pad} }

ListInit ==
    /\ doc \in Documents(MaxHead, MaxItems, PadLen)
    /\ lpc = "input"
    /\ listing = <<>>

ListIdle ==
    /\ doc = [areas |-> <<>>, items |-> <<>>]
    /\ lpc = "input"
    /\ listing = <<>>

ParseList ==
    /\ lpc = "input"
    /\ listing' = _parse_article_list(doc, "politics")
    /\ lpc' = "parsed"
    /\ UNCHANGED doc

\* C6: the returned list holds no URL twice, also when pass 1 matches the
\* same link more than once.
ListingDedup ==
    lpc = "parsed" =>
        \A i, j \in 1..Len(listing) : i # j => listing[i].url # listing[j].url

\* The URLs of the document's valid candidates: links with a title and an
\* href that resolves to the news host.
DocLinks(d) ==
    UNION {{d.areas[a][i] : i \in 1..Len(d.areas[a])} : a \in 1..Len(d.areas)}
        \cup ({d.items[i] : i \in 1..Len(d.items)} \ {NoLink})

ValidUrls(d) ==
    {UrlJoin(l.href) : l \in {k \in DocLinks(d) :
        k.title # "" /\ k.href # EmptyHref /\ UrlJoin(k.href).host = NewsHost}}

\* C7: never more than 20 entries; a document with more than 20 valid
\* candidates yields exactly 20, the first 20 in collection order.
ListingCap ==
    lpc = "parsed" =>
        /\ Len(listing) <= ListCap
        /\ Cardinality(ValidUrls(doc)) > ListCap =>
              /\ Len(listing) = ListCap
              /\ listing = SubSeq(CollectCandidates(doc, "politics"), 1, ListCap)

ListingCapWitness ==
    /\ lpc = "parsed"
    /\ Cardinality(ValidUrls(doc)) > ListCap
    /\ Len(listing) = ListCap
    /\ Len(CollectCandidates(doc, "politics")) > ListCap + 1

\* C27: every entry of the returned list has a URL whose host is the news
\* host; a link to another site is never retained, also when the name of
\* the news host occurs in its path or query, and an href that begins with
\* "/" is resolved against the base URL before the check.
HostFilter ==
    lpc = "parsed" =>
        /\ \A i \in 1..Len(listing) :
             /\ listing[i].url.form = "absolute"
             /\ listing[i].url.host = NewsHost
        /\ \A l \in DocLinks(doc) :
             (l.title # "" /\ l.href.form = "rooted" /\ Len(listing) < ListCap) =>
                 \E i \in 1..Len(listing) : listing[i].url = UrlJoin(l.href)

(***************************************************************************)
(* NaverNewsCrawler._parse_datetime (src/src/crawlers/naver.py).           *)
(*                                                                         *)
(* A string is a sequence of one-character strings.  The two patterns are  *)
(* matched as re.search matches them: at the leftmost position where the   *)
(* pattern fits.                                                           *)
(***************************************************************************)

VARIABLES
    time_str,    \* the argument of _parse_datetime
    parts,       \* what time_str was written from
    dpc,         \* "input" before the call, "parsed" after it
    published_at \* the returned value

dateVars == <<time_str, parts, dpc, published_at>>

Digits == <<"0", "1", "2", "3", "4", "5", "6", "7", "8", "9">>

\* \d
IsDigit(c) == \E k \in 1..10 : Digits[k] = c
\* \s
IsSpace(c) == c \in {" ", "\t", "\n"}
\* [.-]
IsDateSep(c) == c \in {".", "-"}

DigitValue(c) == (CHOOSE k \in 1..10 : Digits[k] = c) - 1

\* int() of the digits s[i..j]
RECURSIVE ToInt(_, _, _)
ToInt(s, i, j) == IF j < i THEN 0 ELSE ToInt(s, i, j - 1) * 10 + DigitValue(s[j])

AllDigits(s, i, j) == \A k \in i..j : IsDigit(s[k])

\* (\d{4})[.-](\d{2})[.-](\d{2}) fits at position i.
DateAt(s, i) ==
    /\ i + 9 <= Len(s)
    /\ AllDigits(s, i, i + 3)
    /\ IsDateSep(s[i + 4])
    /\ AllDigits(s, i + 5, i + 6)
    /\ IsDateSep(s[i + 7])
    /\ AllDigits(s, i + 8, i + 9)

\* \s* from position j on: the first position that holds no white space.
RECURSIVE SkipSpaces(_, _)
SkipSpaces(s, j) == IF j <= Len(s) /\ IsSpace(s[j]) THEN SkipSpaces(s, j + 1) ELSE j

\* (\d{4})[.-](\d{2})[.-](\d{2})\s*(\d{2}):(\d{2}) fits at position i.
DateTimeAt(s, i) ==
    /\ DateAt(s, i)
    /\ LET j == SkipSpaces(s, i + 10)
       IN  /\ j + 4 <= Len(s)
           /\ AllDigits(s, j, j + 1)
           /\ s[j + 2] = ":"
           /\ AllDigits(s, j + 3, j + 4)

\* re.search: the leftmost position where the pattern fits, 0 when none.
SearchDateTime(s) ==
    IF \E i \in 1..Len(s) : DateTimeAt(s, i)
      THEN CHOOSE i \in 1..Len(s) : DateTimeAt(s, i) /\ \A k \in 1..(i - 1) : ~DateTimeAt(s, k)
      ELSE 0

SearchDate(s) ==
    IF \E i \in 1..Len(s) : DateAt(s, i)
      THEN CHOOSE i \in 1..Len(s) : DateAt(s, i) /\ \A k \in 1..(i - 1) : ~DateAt(s, k)
      ELSE 0

IsLeap(y) == (y % 4 = 0 /\ y % 100 # 0) \/ y % 400 = 0

DaysInMonth(y, m) ==
    IF m = 2 THEN (IF IsLeap(y) THEN 29 ELSE 28)
    ELSE IF m \in {4, 6, 9, 11} THEN 30 ELSE 31

\* datetime(...) raises ValueError unless this holds.
ValidDatetime(y, m, d, h, mi) ==
    /\ y >= 1 /\ y <= 9999
    /\ m >= 1 /\ m <= 12
    /\ d >= 1 /\ d <= DaysInMonth(y, m)
    /\ h >= 0 /\ h <= 23
    /\ mi >= 0 /\ mi <= 59

Datetime(y, m, d, h, mi) ==
    [year |-> y, month |-> m, day |-> d, hour |-> h, minute |-> mi, second |-> 0]

\* _parse_datetime returned None.
NoDatetime == [none |-> TRUE]

\* The second pattern: the date alone, at midnight.
DateOnly(s) ==
    LET i == SearchDate(s)
    IN  IF i = 0 THEN NoDatetime
        ELSE LET y == ToInt(s, i, i + 3)
                 m == ToInt(s, i + 5, i + 6)
                 d == ToInt(s, i + 8, i + 9)
             IN  IF ValidDatetime(y, m, d, 0, 0) THEN Datetime(y, m, d, 0, 0)
                 ELSE NoDatetime

DateOnlyFirst(s) ==
    IF s = <<>> THEN NoDatetime ELSE DateOnly(s)

\* A ValueError that left _parse_datetime.
ValueErrorRaised == [raised |-> "ValueError"]

ParseDatetimeUncaught(s) ==
    IF s = <<>> THEN NoDatetime
    ELSE LET i == SearchDateTime(s)
         IN  IF i = 0 THEN DateOnly(s)
             ELSE LET j == SkipSpaces(s, i + 10)
                      y == ToInt(s, i, i + 3)
                      m == ToInt(s, i + 5, i + 6)
                      d == ToInt(s, i + 8, i + 9)
                      h == ToInt(s, j, j + 1)
                      mi == ToInt(s, j + 3, j + 4)
                  IN  IF ValidDatetime(y, m, d, h, mi) THEN Datetime(y, m, d, h, mi)
                      ELSE ValueErrorRaised

\* The loop over the two patterns: a pattern that does not match, or whose
\* groups make datetime() raise ValueError, passes on to the next one.
_parse_datetime(s) ==
    IF s = <<>> THEN NoDatetime
    ELSE LET i == SearchDateTime(s)
         IN  IF i = 0 THEN DateOnly(s)
             ELSE LET j == SkipSpaces(s, i + 10)
                      y == ToInt(s, i, i + 3)
                      m == ToInt(s, i + 5, i + 6)
                      d == ToInt(s, i + 8, i + 9)
                      h == ToInt(s, j, j + 1)
                      mi == ToInt(s, j + 3, j + 4)
                  IN  IF ValidDatetime(y, m, d, h, mi) THEN Datetime(y, m, d, h, mi)
                      ELSE DateOnly(s)

\* The pieces the inputs are written from, each with the number it spells.
Piece(text, val) == [text |-> text, val |-> val]

Years == { Piece(<<"2", "0", "2", "5">>, 2025), Piece(<<"2", "0", "2", "4">>, 2024),
           Piece(<<"0", "0", "0", "0">>, 0) }
Months == { Piece(<<"0", "1">>, 1), Piece(<<"0", "2">>, 2), Piece(<<"1", "3">>, 13) }
Days == { Piece(<<"2", "7">>, 27), Piece(<<"2", "9">>, 29), Piece(<<"3", "0">>, 30),
          Piece(<<"0", "0">>, 0) }
Hours == { Piece(<<"1", "4">>, 14), Piece(<<"2", "4">>, 24), Piece(<<"0", "9">>, 9) }
Minutes == { Piece(<<"3", "0">>, 30), Piece(<<"6", "0">>, 60) }
Seps == {".", "-", "/"}
\* Between the date and the time: nothing, white space, or a letter.
Gaps == { <<>>, <<" ">>, <<" ", " ">>, <<"T">> }
Prefixes == { <<>>, <<"@", " ">>, <<"1">> }
\* After the date and time: nothing, a further digit, or a second, valid
\* date and time.
SecondDatetime == <<" ", "2", "0", "2", "5", "-", "1", "2", "-", "3", "1", " ",
                    "2", "3", ":", "5", "9">>
Suffixes == { <<>>, <<"5">>, SecondDatetime }

NoTime == [text |-> <<>>, h |-> 0, mi |-> 0, present |-> FALSE, gap |-> <<>>]

Times ==
    {NoTime} \cup
    { [text |-> g \o h.text \o <<":">> \o mi.text, h |-> h.val, mi |-> mi.val,
       present |-> TRUE, gap |-> g] : g \in Gaps, h \in Hours, mi \in Minutes }

Built(prefixes) ==
    { [kind |-> "built", prefix |-> p, y |-> y, s1 |-> s1, m |-> m, s2 |-> s2, d |-> d,
       time |-> t, suffix |-> x] :
        p \in prefixes, y \in Years, s1 \in Seps, m \in Months, s2 \in {".", "-"},
        d \in Days, t \in Times, x \in Suffixes }

Render(b) ==
    b.prefix \o b.y.text \o <<b.s1>> \o b.m.text \o <<b.s2>> \o b.d.text
        \o b.time.text \o b.suffix

NotADate == <<"n", "o", "t", " ", "a", " ", "d", "a", "t", "e">>

Literal(text) ==
    [kind |-> "literal", prefix |-> text, y |-> Piece(<<>>, 0), s1 |-> "", m |-> Piece(<<>>, 0),
     s2 |-> "", d |-> Piece(<<>>, 0), time |-> NoTime, suffix |-> <<>>]

DateInit ==
    /\ parts \in Built(Prefixes) \cup {Literal(NotADate), Literal(<<>>)}
    /\ time_str = (IF parts.kind = "built" THEN Render(parts) ELSE parts.prefix)
    /\ dpc = "input"
    /\ published_at = NoDatetime

DateIdle ==
    /\ parts = Literal(<<>>)
    /\ time_str = <<>>
    /\ dpc = "input"
    /\ published_at = NoDatetime

ParseDatetime ==
    /\ dpc = "input"
    /\ published_at' = _parse_datetime(time_str)
    /\ dpc' = "parsed"
    /\ UNCHANGED <<time_str, parts>>

\* White space only between the date and the time.
OnlySpaces(g) == \A i \in 1..Len(g) : IsSpace(g[i])

\* The three inputs the specification names.
NamedInputs ==
    /\ (time_str = <<"2", "0", "2", "5", "-", "0", "1", "-", "2", "7", " ",
                     "1", "4", ":", "3", "0">>)
          => published_at = Datetime(2025, 1, 27, 14, 30)
    /\ (time_str = <<"2", "0", "2", "5", ".", "0", "1", ".", "2", "7">>)
          => published_at = Datetime(2025, 1, 27, 0, 0)
    /\ time_str = NotADate => published_at = NoDatetime

\* The first date of a built input, with what follows it, fits the first
\* pattern.
FirstFits ==
    /\ parts.kind = "built"
    /\ parts.s1 \in {".", "-"}
    /\ parts.time.present
    /\ OnlySpaces(parts.time.gap)

FirstValid ==
    ValidDatetime(parts.y.val, parts.m.val, parts.d.val, parts.time.h, parts.time.mi)

\* C10 as stated: any input that holds a date and time with valid
\* components yields it, wherever in the input it stands.
DatetimeContained ==
    dpc = "parsed" =>
        /\ NamedInputs
        /\ (FirstFits /\ FirstValid) =>
              published_at =
                  Datetime(parts.y.val, parts.m.val, parts.d.val, parts.time.h, parts.time.mi)
        /\ (parts.kind = "built" /\ parts.suffix = SecondDatetime /\ ~(FirstFits /\ FirstValid)) =>
              published_at = Datetime(2025, 12, 31, 23, 59)

\* C10: "2025-01-27 14:30" yields 2025-01-27T14:30:00, "2025.01.27" yields
\* 2025-01-27T00:00:00, "not a date" yields None; an input whose leftmost
\* YYYY[-.]MM[-.]DD HH:MM has valid components yields that date and time
\* with seconds zero, and one whose leftmost YYYY[-.]MM[-.]DD HH:MM has an
\* invalid component yields what the date-only pattern gives, also when a
\* valid date and time stands later in the input.
DatetimeNormalization ==
    dpc = "parsed" =>
        /\ NamedInputs
        /\ (FirstFits /\ FirstValid) =>
              published_at =
                  Datetime(parts.y.val, parts.m.val, parts.d.val, parts.time.h, parts.time.mi)
        /\ (FirstFits /\ ~FirstValid) =>
              published_at =
                  (IF ValidDatetime(parts.y.val, parts.m.val, parts.d.val, 0, 0)
                     THEN Datetime(parts.y.val, parts.m.val, parts.d.val, 0, 0)
                     ELSE NoDatetime)
        /\ (parts.kind = "built" /\ parts.suffix = SecondDatetime /\ ~FirstFits) =>
              published_at = Datetime(2025, 12, 31, 23, 59)

DatetimeNormalizationWitness ==
    /\ dpc = "parsed"
    /\ parts.kind = "built"
    /\ parts.prefix = <<"1">>
    /\ parts.suffix = <<"5">>
    /\ parts.time.present
    /\ published_at = Datetime(2024, 2, 29, 9, 30)

\* The first date of a built input fits the date-only pattern.
DateFits == parts.kind = "built" /\ parts.s1 \in {".", "-"}

DateValid == ValidDatetime(parts.y.val, parts.m.val, parts.d.val, 0, 0)

\* The leftmost match of the date+time pattern has valid components: it is
\* the first date with its time, or, when that does not fit the pattern, the
\* date and time that follows.
PatternOneYields ==
    \/ FirstFits /\ FirstValid
    \/ parts.kind = "built" /\ ~FirstFits /\ parts.suffix = SecondDatetime

\* The leftmost match of the date-only pattern has valid components.
PatternTwoYields ==
    \/ DateFits /\ DateValid
    \/ parts.kind = "built" /\ ~DateFits /\ parts.suffix = SecondDatetime

\* C24: _parse_datetime raises for no input; the date+time pattern is tried
\* before the date-only one, a pattern whose match has an out-of-range
\* component is skipped and the next is still tried, so a valid date with an
\* invalid time yields the date at midnight, and the result is None only
\* when no pattern yields a valid timestamp (the empty string included).
DatetimePatternFallback ==
    dpc = "parsed" =>
        /\ published_at # ValueErrorRaised
        /\ time_str = <<>> => published_at = NoDatetime
        /\ (FirstFits /\ FirstValid) =>
              published_at =
                  Datetime(parts.y.val, parts.m.val, parts.d.val, parts.time.h, parts.time.mi)
        /\ (FirstFits /\ DateValid /\ ~FirstValid) =>
              published_at = Datetime(parts.y.val, parts.m.val, parts.d.val, 0, 0)
        /\ published_at = NoDatetime <=> (~PatternOneYields /\ ~PatternTwoYields)
        /\ published_at # NoDatetime =>
              ValidDatetime(published_at.year, published_at.month, published_at.day,
                            published_at.hour, published_at.minute)

\* 2025-01-27 with the time 24:30: the date at midnight.
DatetimePatternFallbackWitness ==
    /\ dpc = "parsed"
    /\ FirstFits
    /\ parts.time.h = 24 /\ parts.time.mi = 30
    /\ parts.suffix = <<>>
    /\ published_at = Datetime(2025, 1, 27, 0, 0)

(***************************************************************************)
(* NaverNewsCrawler._parse_article_detail (src/src/crawlers/naver.py).     *)
(*                                                                         *)
(* A detail document is what the selectors see of it: `titles`, the        *)
(* elements that match one of the four title selectors, in document order  *)
(* (select_one takes the first of them), and for the body, the source, the *)
(* author, the time and the image the first matching element, or NoElem.   *)
(***************************************************************************)

VARIABLES
    page,      \* the detail document handed to _parse_article_detail
    detpc,     \* "input" before the call, "parsed" after it
    article    \* the returned value

detailVars == <<page, detpc, article>>

\* content[:300]
SummaryLimit == 300
\* Elements matching a title selector in one document.
MaxTitleElems == 2

\* select_one found nothing.
NoElem == [none |-> TRUE]
\* _parse_article_detail returned None.
NoArticle == [none |-> TRUE]

TitleSelectors == <<"#title_area", ".media_end_head_headline", "h2.end_tit", "#articleTitle">>

\* title_elem.get_text(strip=True) if title_elem else ""
TitleOf(p) == IF p.titles = <<>> THEN "" ELSE Head(p.titles).text

NeverRejected(title) == FALSE

\* if not title: return None
Rejected(title) == title = ""

\* The text of the body element once script, style and .reporter_area are
\* removed from it.
ContentOf(p) == IF p.content = NoElem THEN <<>> ELSE p.content.text

Ellipsis == <<".", ".", ".">>

SummaryOfNoEllipsis(content) ==
    IF Len(content) > SummaryLimit THEN SubSeq(content, 1, SummaryLimit) ELSE content

\* content[:300] + "..." if len(content) > 300 else content
SummaryOf(content) ==
    IF Len(content) > SummaryLimit THEN SubSeq(content, 1, SummaryLimit) \o Ellipsis
    ELSE content

\* alt, or else title, or else the element's text.
SourceOf(p) ==
    IF p.source = NoElem THEN ""
    ELSE IF p.source.alt # "" THEN p.source.alt
    ELSE IF p.source.title # "" THEN p.source.title
    ELSE p.source.text

AuthorOf(p) == IF p.author = NoElem THEN "" ELSE p.author.text

\* data-date-time, or else datetime, or else the element's text.
TimeStrOf(p) ==
    IF p.time.data_date_time # <<>> THEN p.time.data_date_time
    ELSE IF p.time.datetime # <<>> THEN p.time.datetime
    ELSE p.time.text

PublishedAtOf(p) == IF p.time = NoElem THEN NoDatetime ELSE _parse_datetime(TimeStrOf(p))

ImageUrlOf(p) == IF p.image = NoElem THEN Absent ELSE p.image.src

_parse_article_detail(p, url, category) ==
    LET title == TitleOf(p)
        content == ContentOf(p)
    IN  IF Rejected(title) THEN NoArticle
        ELSE [title |-> title, url |-> url, summary |-> SummaryOf(content),
              content |-> content, category |-> category, source |-> SourceOf(p),
              author |-> AuthorOf(p), published_at |-> PublishedAtOf(p),
              image_url |-> ImageUrlOf(p)]

TitleElems == {[sel |-> TitleSelectors[k], text |-> t] : k \in 1..4, t \in {"", "Headline"}}

\* A body text of n characters; those past the limit differ from the others.
Text(n) == [i \in 1..n |-> IF i <= SummaryLimit THEN "a" ELSE "b"]

ContentElems == {NoElem} \cup {[text |-> Text(n)] : n \in {0, 1, SummaryLimit, SummaryLimit + 1}}
SourceElems == {NoElem, [alt |-> "", title |-> "Press", text |-> "Daily"]}
AuthorElems == {NoElem, [text |-> "Kim"]}
TimeElems ==
    { NoElem,
      [data_date_time |-> <<>>, datetime |-> <<>>,
       text |-> <<"2", "0", "2", "5", ".", "0", "1", ".", "2", "7">>] }
ImageElems == {NoElem, [src |-> "https://img.example.com/1.jpg"]}

Pages(n) ==
    { [titles |-> t, content |-> c, source |-> so, author |-> a, time |-> ti, image |-> im] :
        t \in SeqsUpTo(TitleElems, n), c \in ContentElems, so \in SourceElems,
        a \in AuthorElems, ti \in TimeElems, im \in ImageElems }

DetailUrl == Href("absolute", NewsHost, 1, "")

DetailInit ==
    /\ page \in Pages(MaxTitleElems)
    /\ detpc = "input"
    /\ article = NoArticle

DetailIdle ==
    /\ page = [titles |-> <<>>, content |-> NoElem, source |-> NoElem, author |-> NoElem,
               time |-> NoElem, image |-> NoElem]
    /\ detpc = "input"
    /\ article = NoArticle

ParseDetail ==
    /\ detpc = "input"
    /\ article' = _parse_article_detail(page, DetailUrl, "politics")
    /\ detpc' = "parsed"
    /\ UNCHANGED page

\* C8: a detail document in which no title selector matches yields None,
\* whatever else it holds; every Article returned has a non-empty title.
DetailRejection ==
    detpc = "parsed" =>
        /\ page.titles = <<>> => article = NoArticle
        /\ article # NoArticle => article.title # ""

DetailRejectionWitness ==
    /\ detpc = "parsed"
    /\ page.titles = <<>>
    /\ page.content # NoElem /\ page.source # NoElem /\ page.author # NoElem
    /\ page.time # NoElem /\ page.image # NoElem
    /\ article = NoArticle

\* The place of a selector in the listed order.
SelIndex(sel) == CHOOSE k \in 1..Len(TitleSelectors) : TitleSelectors[k] = sel

\* The title elements of p that have text.
Titled(p) == {i \in 1..Len(p.titles) : p.titles[i].text # ""}

\* The text of the element with text whose selector comes first in the
\* listed order.
ListedTitle(p) ==
    LET best == CHOOSE i \in Titled(p) :
                    \A k \in Titled(p) : SelIndex(p.titles[i].sel) <= SelIndex(p.titles[k].sel)
    IN  p.titles[best].text

\* C22: the title selectors are tried in their listed order and the first
\* whose element has text supplies the title; a document in which some title
\* selector matches an element with text is not rejected, even when another
\* matching element has no text.
TitleFallbackOrder ==
    (detpc = "parsed" /\ Titled(page) # {}) =>
        /\ article # NoArticle
        /\ article.title = ListedTitle(page)

VARIABLES
    news_articles,  \* the rows of the table
    now,            \* the clock get_utc_now reads
    last_upsert,    \* per URL, the data of the latest upsert the store applied
    upserts         \* per URL, how many upserts the store applied

storeVars == <<news_articles, now, last_upsert, upserts>>

\* Readings of the clock after which the store alone takes no further call.
MaxTicks == 3
\* Articles in one bulk upsert.
MaxBatch == 2

\* Nothing was upserted for the URL.
NoData == [none |-> TRUE]

\* published_at.isoformat()
IsoFormat(d) == [iso |-> <<d.year, d.month, d.day, d.hour, d.minute, d.second>>]

\* article.model_dump() with the category's value, crawled_at, and
\* published_at as an ISO string when there is one.
ToData(a, t) ==
    [title |-> a.title, url |-> a.url, summary |-> a.summary, content |-> a.content,
     category |-> a.category, source |-> a.source, author |-> a.author,
     image_url |-> a.image_url,
     published_at |-> IF a.published_at = NoDatetime THEN a.published_at
                      ELSE IsoFormat(a.published_at),
     crawled_at |-> t]

\* The data of a batch: get_utc_now is read once per article.
DataList(batch, t) == [i \in 1..Len(batch) |-> ToData(batch[i], t + i - 1)]

ConflictKeyTitle(data) == data.title

\* on_conflict="url"
ConflictKey(data) == data.url

WithId(data, id) ==
    [id |-> id, title |-> data.title, url |-> data.url, summary |-> data.summary,
     content |-> data.content, category |-> data.category, source |-> data.source,
     author |-> data.author, image_url |-> data.image_url,
     published_at |-> data.published_at, crawled_at |-> data.crawled_at]

WithoutId(row) ==
    [title |-> row.title, url |-> row.url, summary |-> row.summary, content |-> row.content,
     category |-> row.category, source |-> row.source, author |-> row.author,
     image_url |-> row.image_url, published_at |-> row.published_at,
     crawled_at |-> row.crawled_at]

NextId(tbl) == Cardinality(tbl) + 1

UpsertRowKeepCrawledAt(tbl, data) ==
    IF \E r \in tbl : r.url = data.url
      THEN {IF r.url = data.url THEN [WithId(data, r.id) EXCEPT !.crawled_at = r.crawled_at]
            ELSE r : r \in tbl}
      ELSE tbl \cup {WithId(data, NextId(tbl))}

\* upsert of one row: a row with the same conflict key takes the new data
\* and keeps its id; without one the row is inserted.
UpsertRow(tbl, data) ==
    IF \E r \in tbl : ConflictKey(r) = ConflictKey(data)
      THEN {IF ConflictKey(r) = ConflictKey(data) THEN WithId(data, r.id) ELSE r : r \in tbl}
      ELSE tbl \cup {WithId(data, NextId(tbl))}

RECURSIVE UpsertRows(_, _)
UpsertRows(tbl, dataList) ==
    IF dataList = <<>> THEN tbl
    ELSE UpsertRows(UpsertRow(tbl, Head(dataList)), Tail(dataList))

RECURSIVE Record(_, _)
\* The bookkeeping of the applied upserts.
Record(last, dataList) ==
    IF dataList = <<>> THEN last
    ELSE Record([last EXCEPT ![Head(dataList).url] = Head(dataList)], Tail(dataList))

RECURSIVE Count(_, _)
Count(n, dataList) ==
    IF dataList = <<>> THEN n
    ELSE Count([n EXCEPT ![Head(dataList).url] = @ + 1], Tail(dataList))

StoreUrls == {Href("absolute", NewsHost, k, "") : k \in 1..2}

\* The ArticleCreate values the store is called with on its own.
ArticleCreates ==
    { [title |-> t, url |-> u, summary |-> (IF t = "t1" THEN <<>> ELSE <<"s">>),
       content |-> <<>>, category |-> "politics", source |-> "", author |-> "",
       image_url |-> Absent,
       published_at |-> (IF t = "t1" THEN NoDatetime ELSE Datetime(2025, 1, 27, 14, 30))] :
        t \in {"t1", "t2"}, u \in StoreUrls }

StoreInit ==
    /\ news_articles = {}
    /\ now = 0
    /\ last_upsert = [u \in StoreUrls |-> NoData]
    /\ upserts = [u \in StoreUrls |-> 0]

ExecuteRollback(dataList, outcome) ==
    /\ now' = now + Len(dataList)
    /\ IF outcome = "ok"
         THEN /\ news_articles' = UpsertRows(news_articles, dataList)
              /\ last_upsert' = Record(last_upsert, dataList)
              /\ upserts' = Count(upserts, dataList)
         ELSE /\ news_articles' = {}
              /\ UNCHANGED <<last_upsert, upserts>>

\* The store applies the data, or raises and applies nothing.
Execute(dataList, outcome) ==
    /\ now' = now + Len(dataList)
    /\ IF outcome = "ok"
         THEN /\ news_articles' = UpsertRows(news_articles, dataList)
              /\ last_upsert' = Record(last_upsert, dataList)
              /\ upserts' = Count(upserts, dataList)
         ELSE UNCHANGED <<news_articles, last_upsert, upserts>>

\* NewsRepository.upsert_article
UpsertArticle ==
    /\ now < MaxTicks
    /\ \E a \in ArticleCreates, outcome \in {"ok", "raise"} :
         Execute(<<ToData(a, now)>>, outcome)

\* NewsRepository.bulk_upsert_articles: an empty list returns at once.
BulkUpsertArticles ==
    /\ now < MaxTicks
    /\ \E batch \in SeqsUpTo(ArticleCreates, MaxBatch), outcome \in {"ok", "raise"} :
         IF batch = <<>> THEN UNCHANGED storeVars
         ELSE Execute(DataList(batch, now), outcome)

RowsOf(u) == {r \in news_articles : r.url = u}

\* C9: after any sequence of upsert_article and bulk_upsert_articles calls
\* the table holds exactly one row per URL that was upserted, with the
\* fields of the latest upsert for that URL, and no second row for a URL.
IdempotentUpsert ==
    \A u \in StoreUrls :
        /\ Cardinality(RowsOf(u)) = (IF upserts[u] > 0 THEN 1 ELSE 0)
        /\ \A r \in RowsOf(u) : WithoutId(r) = last_upsert[u]

IdempotentUpsertWitness ==
    \E u \in StoreUrls :
        /\ upserts[u] >= 2
        /\ Cardinality(news_articles) = 2
        /\ \E r \in RowsOf(u) : r.title = "t2" /\ r.crawled_at = 2 /\ r.id = 1

(***************************************************************************)
(* NewsService.crawl_all_categories                                        *)
(* (src/backend/app/service/news_service.py), with the crawler's           *)
(* crawl_all_categories and crawl_category it calls                        *)
(* (src/src/crawlers/naver.py) and the run log of the repository.          *)
(*                                                                         *)
(* `run` holds, per invocation, the locals of crawl_all_categories and its *)
(* position; an invocation moves at its await points.  What the network    *)
(* answers is chosen freely in CrawlCategory: the listing fetch fails or   *)
(* the listing parses to n candidates, and with include_content any of the *)
(* detail pages may fail to be fetched or parsed.                          *)
(***************************************************************************)

VARIABLES
    run,         \* invocation -> its locals, position and history
    crawl_logs,  \* the crawl_logs table: the row with id k is crawl_logs[k]
    single       \* one invocation of NewsService.crawl_category

svcVars == <<run, crawl_logs, single>>

\* The longest list of categories an invocation is given.
MaxCats == 4
\* The most candidates one listing parses to.
MaxCand == 2
\* The largest max_per_category; the smallest is 1, as the route admits.
MaxPer == 1
\* The longest list of categories given together with include_content.
MaxCatsContent == 2

Runs == {1, 2}

\* list(CategoryEnum)
AllCategories == <<"politics", "economy", "society", "life", "world", "it">>

CatIndex(c) == CHOOSE k \in 1..Len(AllCategories) : AllCategories[k] = c

\* NewsService._map_category: the source enum member with the same value.
_map_category(c) == AllCategories[CatIndex(c)]

\* if categories is None: categories = list(CategoryEnum)
DefaultCategories(categories) ==
    IF categories = <<Absent>> THEN AllCategories ELSE categories

\* No exception.
NoExc == [none |-> TRUE]
Exc(call, at, msg) == [call |-> call, at |-> at, msg |-> msg]

\* str(e) of the exceptions the store raises: some carry no text.
Messages == {"", "store outage"}

\* The j-th article a category's listing shows.
ArticleUrl(c, j) == Href("absolute", NewsHost, CatIndex(c) * 100 + j, "")
ListingEntry(c, j) == [title |-> "Headline", url |-> ArticleUrl(c, j), category |-> c]

\* A detail page that parses.
GoodPage ==
    [titles |-> <<[sel |-> "#title_area", text |-> "Headline"]>>,
     content |-> [text |-> Text(1)], source |-> NoElem, author |-> NoElem,
     time |-> NoElem, image |-> NoElem]

BasicArticleTitleAsSummary(item) ==
    [title |-> item.title, url |-> item.url, summary |-> <<item.title>>, content |-> <<>>,
     category |-> item.category, source |-> "", author |-> "",
     published_at |-> NoDatetime, image_url |-> Absent]

\* Article(title=item["title"], url=item["url"], category=category, summary="")
BasicArticle(item) ==
    [title |-> item.title, url |-> item.url, summary |-> <<>>, content |-> <<>>,
     category |-> item.category, source |-> "", author |-> "",
     published_at |-> NoDatetime, image_url |-> Absent]

\* NewsService._article_to_create
_article_to_create(a) ==
    [title |-> a.title, url |-> a.url, summary |-> a.summary, content |-> a.content,
     category |-> a.category, source |-> a.source, author |-> a.author,
     image_url |-> a.image_url, published_at |-> a.published_at]

Min(a, b) == IF a <= b THEN a ELSE b

get_article_list_unchecked(c, fetched, max_count) ==
    [j \in 1..Min(IF fetched.failed THEN 1 ELSE fetched.n, max_count) |-> ListingEntry(c, j)]

\* get_article_list: [] when the fetch failed, else the parsed list cut to
\* max_count.
get_article_list(c, fetched, max_count) ==
    IF fetched.failed THEN <<>>
    ELSE [j \in 1..Min(fetched.n, max_count) |-> ListingEntry(c, j)]

\* The loop of crawl_category over the list: with include_content the
\* entries whose detail page was fetched and parsed, else a basic Article
\* per entry.
RECURSIVE CrawlLoop(_, _, _, _)
CrawlLoop(article_list, j, include_content, fails) ==
    IF j > Len(article_list) THEN <<>>
    ELSE LET item == article_list[j]
             this == IF include_content
                       THEN (IF j \in fails THEN <<>>
                             ELSE <<_parse_article_detail(GoodPage, item.url, item.category)>>)
                       ELSE <<BasicArticle(item)>>
         IN  this \o CrawlLoop(article_list, j + 1, include_content, fails)

crawl_category(c, fetched, max_articles, include_content, fails) ==
    CrawlLoop(get_article_list(c, fetched, max_articles), 1, include_content, fails)

DictSetNonEmpty(d, k, v) ==
    IF v = <<>> THEN d
    ELSE IF \E i \in 1..Len(d) : d[i].key = k
      THEN [i \in 1..Len(d) |-> IF d[i].key = k THEN [key |-> k, value |-> v] ELSE d[i]]
      ELSE Append(d, [key |-> k, value |-> v])

\* d[k] = v on a dict, kept in insertion order.
DictSet(d, k, v) ==
    IF \E i \in 1..Len(d) : d[i].key = k
      THEN [i \in 1..Len(d) |-> IF d[i].key = k THEN [key |-> k, value |-> v] ELSE d[i]]
      ELSE Append(d, [key |-> k, value |-> v])

\* results[k] = v
ResultSet(results, k, v) ==
    [x \in DOMAIN results \cup {k} |-> IF x = k THEN v ELSE results[x]]

\* The row create_crawl_log inserts.
NewLogRow(t) ==
    [started_at |-> t, status |-> "running", finished_at |-> <<>>, total_articles |-> <<>>,
     error_message |-> Absent, updates |-> 0]

\* The data update_crawl_log sends: error_message only when it is truthy.
UpdateData(total_articles, status, error_message, t) ==
    [finished_at |-> t, total_articles |-> total_articles, status |-> status,
     error_message |-> IF error_message # Absent /\ error_message # ""
                         THEN <<error_message>> ELSE <<>>]

\* .update(data).eq("id", log_id)
UpdateRow(logs, log_id, data) ==
    [k \in 1..Len(logs) |->
        IF k = log_id
          THEN [started_at |-> logs[k].started_at, status |-> data.status,
                finished_at |-> <<data.finished_at>>,
                total_articles |-> <<data.total_articles>>,
                error_message |-> IF data.error_message = <<>> THEN logs[k].error_message
                                  ELSE data.error_message[1],
                updates |-> logs[k].updates + 1]
          ELSE logs[k]]

Event(ev, cat) == [ev |-> ev, cat |-> cat]

\* The requests crawl_category issues: the listing page, then with
\* include_content one detail page per entry of the list.
CrawlEvents(c, article_list, include_content) ==
    <<Event("listing_request", c)>>
        \o (IF include_content THEN [j \in 1..Len(article_list) |-> Event("detail_request", c)]
            ELSE <<>>)

Prefix(k) == SubSeq(AllCategories, 1, k)

\* The category lists of the model: the first k categories, and two lists
\* that name politics twice.
CategoryLists ==
    {Prefix(k) : k \in 0..MaxCats}
        \cup {<<"politics", "politics">>, <<"politics", "economy", "politics">>}

\* An invocation that was not made.
Off ==
    [pc |-> "off", categories |-> <<>>, max_per_category |-> 0, include_content |-> FALSE,
     log_id |-> 0, total_count |-> 0, results |-> <<>>, articles_by_category |-> <<>>,
     next |-> 0, crawled |-> <<>>, exc |-> NoExc, raised |-> NoExc, faults |-> <<>>,
     http |-> "none", created |-> 0, events |-> <<>>, upserted |-> <<>>]

CalledSkippingLog(categories, max_per_category, include_content) ==
    [Off EXCEPT !.pc = "enter", !.categories = DefaultCategories(categories),
                !.max_per_category = max_per_category,
                !.include_content = include_content]

\* crawl_all_categories was called.
Called(categories, max_per_category, include_content) ==
    [Off EXCEPT !.pc = "create", !.categories = DefaultCategories(categories),
                !.max_per_category = max_per_category,
                !.include_content = include_content]

SvcUrls == {ArticleUrl(AllCategories[k], j) : k \in 1..(MaxCats + 1), j \in 1..(MaxCand + 1)}

SvcStoreInit ==
    /\ news_articles = {}
    /\ now = 0
    /\ last_upsert = [u \in SvcUrls |-> NoData]
    /\ upserts = [u \in SvcUrls |-> 0]

\* NewsService.crawl_category was not called.
SingleOff ==
    [pc |-> "off", category |-> "", max_articles |-> 0, include_content |-> FALSE,
     http |-> "none", events |-> <<>>, articles |-> <<>>, next |-> 0, created_articles |-> 0]

\* NewsService.crawl_category(category, max_articles, include_content) was
\* called.
SingleCalled(category, max_articles, include_content) ==
    [SingleOff EXCEPT !.pc = "enter", !.category = category, !.max_articles = max_articles,
                      !.include_content = include_content]

SvcInit ==
    /\ \E cs \in CategoryLists, m \in 1..MaxPer, ic \in BOOLEAN :
         /\ ic => Len(cs) <= MaxCatsContent
         /\ run = [r \in Runs |-> IF r = 1 THEN Called(cs, m, ic) ELSE Off]
    /\ crawl_logs = <<>>
    /\ single = SingleOff

\* Two invocations of crawl_all_categories for the same category, as when
\* a manual trigger overlaps a scheduled run.
ConcInit ==
    /\ \E ic \in BOOLEAN :
         run = [r \in Runs |-> Called(<<"politics">>, 1, IF r = 1 THEN ic ELSE FALSE)]
    /\ crawl_logs = <<>>
    /\ single = SingleOff

\* One invocation of NewsService.crawl_category and no other.
SingleInit ==
    /\ run = [r \in Runs |-> Off]
    /\ crawl_logs = <<>>
    /\ \E k \in 1..MaxCatsContent, m \in 1..MaxPer, ic \in BOOLEAN :
         single = SingleCalled(AllCategories[k], m, ic)

SvcIdle ==
    /\ run = [r \in Runs |-> Off]
    /\ crawl_logs = <<>>
    /\ single = SingleOff

\* log = await self.repository.create_crawl_log(); log_id = log.get("id").
\* The insert returns the row, or returns no data, or raises.
CreateCrawlLog(r) ==
    /\ run[r].pc = "create"
    /\ \E outcome \in {"row", "empty", "raise"}, msg \in Messages :
         /\ now' = now + 1
         /\ IF outcome = "raise"
              THEN /\ run' = [run EXCEPT ![r].pc = "raised",
                                         ![r].raised = Exc("create_crawl_log", 0, msg),
                                         ![r].faults = Append(@, Exc("create_crawl_log", 0, msg)),
                                         ![r].events = Append(@, Event("create_crawl_log", ""))]
                   /\ UNCHANGED crawl_logs
              ELSE /\ crawl_logs' = Append(crawl_logs, NewLogRow(now))
                   /\ run' = [run EXCEPT ![r].pc = "enter",
                                         ![r].log_id = IF outcome = "row" THEN Len(crawl_logs) + 1
                                                       ELSE 0,
                                         ![r].created = Len(crawl_logs) + 1,
                                         ![r].events = Append(@, Event("create_crawl_log", ""))]
    /\ UNCHANGED <<news_articles, last_upsert, upserts>>

\* src_categories = [...]; async with HttpClient() as http: the pool is
\* acquired.
EnterHttp(r) ==
    /\ run[r].pc = "enter"
    /\ run' = [run EXCEPT ![r].pc = "crawl", ![r].next = 1, ![r].http = "held",
                          ![r].events = Append(@, Event("pool_acquired", ""))]
    /\ UNCHANGED <<crawl_logs, storeVars>>

\* What the fetch of a listing page gives: nothing, or a page that parses
\* to n candidates.
Fetches == {[failed |-> TRUE, n |-> 0]} \cup {[failed |-> FALSE, n |-> k] : k \in 0..MaxCand}

CrawlCategoryCounting(r) ==
    /\ run[r].pc = "crawl"
    /\ run[r].next <= Len(run[r].categories)
    /\ \E fetched \in Fetches :
         LET c == _map_category(run[r].categories[run[r].next])
             article_list == get_article_list(c, fetched, run[r].max_per_category)
         IN  \E fails \in SUBSET (1..Len(article_list)) :
               /\ ~run[r].include_content => fails = {}
               /\ LET articles == crawl_category(c, fetched, run[r].max_per_category,
                                                 run[r].include_content, fails)
                  IN  run' = [run EXCEPT
                        ![r].articles_by_category = DictSet(@, c, articles),
                        ![r].next = @ + 1,
                        ![r].total_count = @ + Len(articles),
                        ![r].crawled = Append(@, [category |-> c, failed |-> fetched.failed,
                                                  n |-> fetched.n, fails |-> fails]),
                        ![r].events = @ \o CrawlEvents(c, article_list, run[r].include_content)]
    /\ UNCHANGED <<crawl_logs, storeVars>>

\* One iteration of the crawler's loop over the categories:
\* result[category.value] = await self.crawl_category(...).
CrawlCategory(r) ==
    /\ run[r].pc = "crawl"
    /\ run[r].next <= Len(run[r].categories)
    /\ \E fetched \in Fetches :
         LET c == _map_category(run[r].categories[run[r].next])
             article_list == get_article_list(c, fetched, run[r].max_per_category)
         IN  \E fails \in SUBSET (1..Len(article_list)) :
               /\ ~run[r].include_content => fails = {}
               /\ LET articles == crawl_category(c, fetched, run[r].max_per_category,
                                                 run[r].include_content, fails)
                  IN  run' = [run EXCEPT
                        ![r].articles_by_category = DictSet(@, c, articles),
                        ![r].next = @ + 1,
                        ![r].crawled = Append(@, [category |-> c, failed |-> fetched.failed,
                                                  n |-> fetched.n, fails |-> fails]),
                        ![r].events = @ \o CrawlEvents(c, article_list, run[r].include_content)]
    /\ UNCHANGED <<crawl_logs, storeVars>>

\* An exception leaves crawl_category (a parser or a model constructor
\* raised): it leaves the async with block, which closes the pool, and
\* reaches the except clause.
CrawlRaises(r) ==
    /\ run[r].pc = "crawl"
    /\ run[r].next <= Len(run[r].categories)
    /\ \E msg \in Messages :
         LET c == _map_category(run[r].categories[run[r].next])
             e == Exc("crawl_category", run[r].next, msg)
         IN  run' = [run EXCEPT ![r].pc = "except", ![r].exc = e, ![r].http = "released",
                                ![r].faults = Append(@, e),
                                ![r].events = @ \o <<Event("listing_request", c),
                                                     Event("pool_released", "")>>]
    /\ UNCHANGED <<crawl_logs, storeVars>>

ExitHttpHolding(r) ==
    /\ run[r].pc = "crawl"
    /\ run[r].next > Len(run[r].categories)
    /\ run' = [run EXCEPT ![r].pc = "persist", ![r].next = 1,
                          ![r].events = Append(@, Event("pool_released", ""))]
    /\ UNCHANGED <<crawl_logs, storeVars>>

\* The crawler returned; the async with block ends and the pool is closed.
ExitHttp(r) ==
    /\ run[r].pc = "crawl"
    /\ run[r].next > Len(run[r].categories)
    /\ run' = [run EXCEPT ![r].pc = "persist", ![r].next = 1, ![r].http = "released",
                          ![r].events = Append(@, Event("pool_released", ""))]
    /\ UNCHANGED <<crawl_logs, storeVars>>

CountOfOffByOne(articles) == Len(articles) + 1

\* len(articles)
CountOf(articles) == Len(articles)

\* One call bulk_upsert_articles(article_creates) made for the key cat_str.
Passed(cat_str, article_creates) == [key |-> cat_str, n |-> Len(article_creates)]

\* One iteration of the loop over articles_by_category.items(): the bulk
\* upsert (which returns at once for an empty list), then the counts.
PersistCategory(r) ==
    /\ run[r].pc = "persist"
    /\ run[r].next <= Len(run[r].articles_by_category)
    /\ LET item == run[r].articles_by_category[run[r].next]
           article_creates == [i \in 1..Len(item.value) |-> _article_to_create(item.value[i])]
           counted == [run EXCEPT
                         ![r].results = ResultSet(@, item.key, CountOf(item.value)),
                         ![r].total_count = @ + CountOf(item.value),
                         ![r].next = @ + 1,
                         ![r].upserted = Append(@, Passed(item.key, article_creates))]
       IN  IF article_creates = <<>>
             THEN /\ run' = counted
                  /\ UNCHANGED storeVars
             ELSE \E outcome \in {"ok", "raise"}, msg \in Messages :
                    /\ Execute(DataList(article_creates, now), outcome)
                    /\ IF outcome = "ok"
                         THEN run' = [counted EXCEPT
                                ![r].events = Append(@, Event("bulk_upsert_articles", item.key))]
                         ELSE LET e == Exc("bulk_upsert_articles", run[r].next, msg)
                              IN  run' = [run EXCEPT
                                    ![r].pc = "except", ![r].exc = e,
                                    ![r].faults = Append(@, e),
                                    ![r].events = Append(@, Event("bulk_upsert_articles", item.key)),
                                    ![r].upserted = Append(@, Passed(item.key, article_creates))]
    /\ UNCHANGED crawl_logs

\* After the loop: if log_id: update_crawl_log(log_id, total_count,
\* status="success"); return results.
UpdateSuccess(r) ==
    /\ run[r].pc = "persist"
    /\ run[r].next > Len(run[r].articles_by_category)
    /\ IF run[r].log_id # 0
         THEN \E outcome \in {"ok", "raise"}, msg \in Messages :
                /\ now' = now + 1
                /\ IF outcome = "ok"
                     THEN /\ crawl_logs' = UpdateRow(crawl_logs, run[r].log_id,
                                UpdateData(run[r].total_count, "success", Absent, now))
                          /\ run' = [run EXCEPT ![r].pc = "returned",
                                ![r].events = Append(@, Event("update_crawl_log", "success"))]
                     ELSE LET e == Exc("update_crawl_log", 0, msg)
                          IN  /\ run' = [run EXCEPT ![r].pc = "except", ![r].exc = e,
                                    ![r].faults = Append(@, e),
                                    ![r].events = Append(@, Event("update_crawl_log", "success"))]
                              /\ UNCHANGED crawl_logs
         ELSE /\ run' = [run EXCEPT ![r].pc = "returned"]
              /\ UNCHANGED <<crawl_logs, now>>
    /\ UNCHANGED <<news_articles, last_upsert, upserts>>

\* except Exception as e: if log_id: update_crawl_log(log_id, total_count,
\* status="failed", error_message=str(e)); raise.  An exception of the
\* update replaces e.
HandleException(r) ==
    /\ run[r].pc = "except"
    /\ IF run[r].log_id # 0
         THEN \E outcome \in {"ok", "raise"}, msg \in Messages :
                /\ now' = now + 1
                /\ IF outcome = "ok"
                     THEN /\ crawl_logs' = UpdateRow(crawl_logs, run[r].log_id,
                                UpdateData(run[r].total_count, "failed", run[r].exc.msg, now))
                          /\ run' = [run EXCEPT ![r].pc = "raised", ![r].raised = run[r].exc,
                                ![r].events = Append(@, Event("update_crawl_log", "failed"))]
                     ELSE LET e == Exc("update_crawl_log", 1, msg)
                          IN  /\ run' = [run EXCEPT ![r].pc = "raised", ![r].raised = e,
                                    ![r].faults = Append(@, e),
                                    ![r].events = Append(@, Event("update_crawl_log", "failed"))]
                              /\ UNCHANGED crawl_logs
         ELSE /\ run' = [run EXCEPT ![r].pc = "raised", ![r].raised = run[r].exc]
              /\ UNCHANGED <<crawl_logs, now>>
    /\ UNCHANGED <<news_articles, last_upsert, upserts>>

Finished(r) == run[r].pc \in {"returned", "raised"}

\* NewsService.crawl_category: async with HttpClient() as http.
SingleEnter ==
    /\ single.pc = "enter"
    /\ single' = [single EXCEPT !.pc = "crawl", !.http = "held",
                                !.events = Append(@, Event("pool_acquired", ""))]
    /\ UNCHANGED <<run, crawl_logs, storeVars>>

\* articles = await crawler.crawl_category(...), inside the block.
SingleCrawl ==
    /\ single.pc = "crawl"
    /\ \E fetched \in Fetches :
         LET c == _map_category(single.category)
             article_list == get_article_list(c, fetched, single.max_articles)
         IN  \E fails \in SUBSET (1..Len(article_list)) :
               /\ ~single.include_content => fails = {}
               /\ single' = [single EXCEPT
                     !.pc = "exit",
                     !.articles = crawl_category(c, fetched, single.max_articles,
                                                 single.include_content, fails),
                     !.events = @ \o CrawlEvents(c, article_list, single.include_content)]
    /\ UNCHANGED <<run, crawl_logs, storeVars>>

\* An exception leaves the crawler: the block is left, the pool closed, and
\* the exception leaves crawl_category.
SingleCrawlRaises ==
    /\ single.pc = "crawl"
    /\ single' = [single EXCEPT
          !.pc = "raised", !.http = "released",
          !.events = @ \o <<Event("listing_request", _map_category(single.category)),
                            Event("pool_released", "")>>]
    /\ UNCHANGED <<run, crawl_logs, storeVars>>

\* The block ends and the pool is closed.
SingleExit ==
    /\ single.pc = "exit"
    /\ single' = [single EXCEPT !.pc = "save", !.next = 1, !.http = "released",
                                !.events = Append(@, Event("pool_released", ""))]
    /\ UNCHANGED <<run, crawl_logs, storeVars>>

\* for article in articles: result = await upsert_article(article_create).
SingleUpsert ==
    /\ single.pc = "save"
    /\ single.next <= Len(single.articles)
    /\ \E outcome \in {"ok", "raise"} :
         /\ Execute(<<ToData(_article_to_create(single.articles[single.next]), now)>>, outcome)
         /\ single' = [single EXCEPT
               !.pc = IF outcome = "ok" THEN "save" ELSE "raised",
               !.next = IF outcome = "ok" THEN @ + 1 ELSE @,
               !.created_articles = IF outcome = "ok" THEN @ + 1 ELSE @,
               !.events = Append(@, Event("upsert_article", single.category))]
    /\ UNCHANGED <<run, crawl_logs>>

\* return created_articles
SingleReturn ==
    /\ single.pc = "save"
    /\ single.next > Len(single.articles)
    /\ single' = [single EXCEPT !.pc = "returned"]
    /\ UNCHANGED <<run, crawl_logs, storeVars>>

\* The row create_crawl_log inserted for invocation r.
LogOf(r) == crawl_logs[run[r].created]

\* The number of articles of the k-th entry of articles_by_category.
CrawledCount(r, k) == Len(run[r].articles_by_category[k].value)

\* Invocation r ran over four categories and its only failing gateway call
\* is the bulk upsert of the third.
ThirdOfFourFails(r) ==
    /\ Finished(r)
    /\ run[r].categories = Prefix(4)
    /\ Len(run[r].faults) = 1
    /\ run[r].faults[1].call = "bulk_upsert_articles"
    /\ run[r].faults[1].at = 3

\* C1: when the bulk upsert raises on the third of four categories, the run
\* log is updated to failed with the sum of the first two categories'
\* counts and a non-empty error message, and the exception the upsert
\* raised reaches the caller.
RunLogFailureAccounting ==
    \A r \in Runs :
        ThirdOfFourFails(r) =>
            /\ run[r].created # 0
            /\ LogOf(r).status = "failed"
            /\ LogOf(r).total_articles = <<CrawledCount(r, 1) + CrawledCount(r, 2)>>
            /\ LogOf(r).error_message \notin {Absent, ""}
            /\ run[r].pc = "raised"
            /\ run[r].raised = run[r].faults[1]

\* C2: whether an invocation returns or raises, the run log it created is
\* updated exactly once, from running to success or to failed.
CrawlRunLifecycle ==
    \A r \in Runs :
        Finished(r) /\ run[r].created # 0 =>
            /\ LogOf(r).updates = 1
            /\ LogOf(r).status \in {"success", "failed"}

\* A crawl over politics and economy in which the politics listing fetch
\* failed, the economy listing parsed to n >= 1 candidates and no gateway
\* call failed.
PoliticsFailsEconomyLists(r) ==
    /\ Finished(r)
    /\ run[r].categories = <<"politics", "economy">>
    /\ Len(run[r].crawled) = 2
    /\ run[r].crawled[1].failed
    /\ ~run[r].crawled[2].failed
    /\ run[r].crawled[2].n >= 1
    /\ run[r].faults = <<>>
    /\ run[r].log_id # 0

\* The entries of the economy listing that crawl_category turns into
\* articles: the first max_per_category of them, less with include_content
\* those whose detail page failed.
EconomyKept(r) ==
    (1..Min(run[r].crawled[2].n, run[r].max_per_category)) \ run[r].crawled[2].fails

\* The invocation returned politics -> 0 and economy -> k, the log says
\* success with total k, and the economy articles numbered in `kept` are
\* in the store.
IsolatedOutcome(r, k, kept) ==
    /\ run[r].pc = "returned"
    /\ DOMAIN run[r].results = {"politics", "economy"}
    /\ run[r].results["politics"] = 0
    /\ run[r].results["economy"] = k
    /\ \A j \in kept : RowsOf(ArticleUrl("economy", j)) # {}
    /\ LogOf(r).status = "success"
    /\ LogOf(r).total_articles = <<k>>

RECURSIVE SumOver(_, _)
SumOver(f, S) ==
    IF S = {} THEN 0
    ELSE LET k == CHOOSE x \in S : TRUE IN f[k] + SumOver(f, S \ {k})

\* The bulk_upsert_articles calls invocation r made for the key k.
UpsertCalls(r, k) == {i \in 1..Len(run[r].upserted) : run[r].upserted[i].key = k}

ValueOf(r, k) ==
    LET d == run[r].articles_by_category
    IN  d[CHOOSE i \in 1..Len(d) : d[i].key = k].value

\* C12: a category whose listing fetch failed yields the empty sequence,
\* and its listing request is the only request issued for it: no detail
\* request follows.
FailedListingYieldsNothing ==
    \A r \in Runs :
        (run[r].pc = "crawl" /\ run[r].crawled # <<>>) =>
            LET last == run[r].crawled[Len(run[r].crawled)]
            IN  last.failed =>
                  /\ run[r].events[Len(run[r].events)] = Event("listing_request", last.category)
                  /\ ValueOf(r, last.category) = <<>>

FailedListingYieldsNothingWitness ==
    /\ run[1].pc = "crawl"
    /\ run[1].include_content
    /\ run[1].categories = <<"politics", "economy">>
    /\ Len(run[1].crawled) = 2
    /\ ~run[1].crawled[1].failed
    /\ run[1].crawled[1].n >= 1
    /\ run[1].crawled[2].failed
    /\ ValueOf(1, "economy") = <<>>

IsRequest(e) == e.ev \in {"listing_request", "detail_request"}

Positions(events, ev) == {i \in 1..Len(events) : events[i].ev = ev}

\* The pool is acquired at most once, each request lies after the
\* acquisition and before the release, the pool is held exactly between the
\* two, and it is not held when the invocation has ended.
PoolScoped(events, http, ended) ==
    LET acquired == Positions(events, "pool_acquired")
        released == Positions(events, "pool_released")
    IN  /\ Cardinality(acquired) <= 1
        /\ Cardinality(released) <= Cardinality(acquired)
        /\ \A i \in 1..Len(events) :
             IsRequest(events[i]) =>
                 /\ \E a \in acquired : a < i
                 /\ \A x \in released : i < x
        /\ http = "held" <=> (acquired # {} /\ released = {})
        /\ http = "released" <=> released # {}
        /\ ended => http # "held"

\* C14: in every execution of NewsService.crawl_category and of
\* crawl_all_categories the pool is acquired once before the first request,
\* every request is issued while it is held, and it has been released when
\* the invocation returns or raises, whether crawling or persistence raised.
ScopedFetcher ==
    /\ \A r \in Runs : PoolScoped(run[r].events, run[r].http, Finished(r))
    /\ PoolScoped(single.events, single.http, single.pc \in {"returned", "raised"})

\* crawl_all_categories raised after persistence failed, having issued
\* requests, with the pool released.
ScopedFetcherWitness ==
    /\ run[1].pc = "raised"
    /\ run[1].raised # NoExc
    /\ run[1].exc # NoExc
    /\ \E f \in 1..Len(run[1].faults) : run[1].faults[f].call = "bulk_upsert_articles"
    /\ \E i \in 1..Len(run[1].events) : run[1].events[i].ev = "detail_request"
    /\ run[1].http = "released"

\* Invocation r's update of its run log was applied.
LogUpdated(r) ==
    /\ run[r].log_id # 0
    /\ \/ run[r].pc = "returned"
       \/ run[r].pc = "raised" /\ run[r].exc # NoExc /\ run[r].raised = run[r].exc

\* C15: when two crawl_all_categories invocations interleave at their await
\* points and upsert overlapping URLs, the store holds at most one record
\* per URL, every stored record equals field for field the record one run
\* submitted, and each run updates only the run log it created.
ConcurrentRuns ==
    /\ \A u \in SvcUrls :
         /\ Cardinality(RowsOf(u)) <= 1
         /\ \A row \in RowsOf(u) : WithoutId(row) = last_upsert[u]
    /\ \A r1, r2 \in Runs :
         (r1 # r2 /\ run[r1].created # 0) => run[r1].created # run[r2].created
    /\ Len(crawl_logs) = Cardinality({r \in Runs : run[r].created # 0})
    /\ \A r \in Runs :
         run[r].created # 0 =>
             /\ LogOf(r).updates = (IF LogUpdated(r) THEN 1 ELSE 0)
             /\ LogUpdated(r) => LogOf(r).total_articles = <<run[r].total_count>>
             /\ ~LogUpdated(r) => LogOf(r).status = "running"

\* Both invocations upserted the same URL and each has updated its own log;
\* the second started after the first and ended before it.
ConcurrentRunsWitness ==
    /\ \A r \in Runs : run[r].pc = "returned" /\ run[r].total_count = 1 /\ run[r].log_id # 0
    /\ run[1].include_content /\ ~run[2].include_content
    /\ upserts[ArticleUrl("politics", 1)] = 2
    /\ run[1].log_id = 1 /\ run[2].log_id = 2
    /\ crawl_logs[2].started_at > crawl_logs[1].started_at
    /\ crawl_logs[2].finished_at # <<>> /\ crawl_logs[1].finished_at # <<>>
    /\ crawl_logs[2].finished_at[1] < crawl_logs[1].finished_at[1]

\* bulk_upsert_articles raised in invocation r for the k-th category.
PersistenceFailedAt(r, k) ==
    /\ run[r].exc # NoExc
    /\ run[r].exc.call = "bulk_upsert_articles"
    /\ run[r].exc.at = k
    /\ Len(run[r].articles_by_category) = Len(run[r].categories)

\* C16: each category is crawled and persisted before the listing page of
\* the next category is requested; hence when persistence fails on category
\* k, no listing page of a category after k has been requested.
PerCategoryOrdering ==
    \A r \in Runs : \A k \in 1..Len(run[r].categories) :
        PersistenceFailedAt(r, k) =>
            Cardinality(Positions(run[r].events, "listing_request")) <= k

\* C17: once bulk_upsert_articles raised for category k, no
\* bulk_upsert_articles call is made for a later category, and the records
\* of the categories upserted before k stay in the store as upserted.
CoarseFailure ==
    \A r \in Runs :
        (run[r].exc # NoExc /\ run[r].exc.call = "bulk_upsert_articles") =>
            LET k == run[r].exc.at
                before == UNION {{run[r].articles_by_category[i].value[j] :
                                    j \in 1..Len(run[r].articles_by_category[i].value)} :
                                 i \in 1..(k - 1)}
            IN  /\ Len(run[r].upserted) = k
                /\ run[r].next = k
                /\ \A a \in before :
                     /\ Cardinality(RowsOf(a.url)) = 1
                     /\ \A row \in RowsOf(a.url) :
                          /\ WithoutId(row) = last_upsert[a.url]
                          /\ row.title = a.title
                          /\ upserts[a.url] = 1
                /\ Cardinality(news_articles) = Cardinality(before)

\* Persistence failed on the second category after the article of the first
\* was stored, and the invocation has raised.
CoarseFailureWitness ==
    /\ run[1].pc = "raised"
    /\ run[1].exc # NoExc
    /\ run[1].exc.call = "bulk_upsert_articles"
    /\ run[1].exc.at = 2
    /\ Len(run[1].articles_by_category) = 3
    /\ Cardinality(news_articles) = 1

\* C18: a run log that crawl_all_categories updated to failed carries the
\* message of the exception that caused the failure, whatever its text (the
\* empty text included), and a run log updated to success carries none.
FailedRunMessage ==
    \A r \in Runs :
        run[r].created # 0 =>
            /\ LogOf(r).status = "failed" =>
                 /\ run[r].exc # NoExc
                 /\ LogOf(r).error_message # Absent
                 /\ LogOf(r).error_message = run[r].exc.msg
            /\ LogOf(r).status = "success" => LogOf(r).error_message = Absent

\* C19: the run log is created with status running before any fetching
\* begins: the pool is not acquired and no request is issued until
\* create_crawl_log has returned, and when create_crawl_log raises no
\* request is ever issued.
LogBeforeFetching ==
    \A r \in Runs :
        LET events == run[r].events
        IN  /\ \A i \in 1..Len(events) :
                 (IsRequest(events[i]) \/ events[i].ev = "pool_acquired") =>
                     /\ \E c \in Positions(events, "create_crawl_log") : c < i
                     /\ run[r].created # 0
            /\ run[r].pc \in {"enter", "crawl"} =>
                 /\ run[r].created # 0
                 /\ LogOf(r).status = "running"
            /\ (run[r].raised # NoExc /\ run[r].raised.call = "create_crawl_log") =>
                 /\ Positions(events, "pool_acquired") = {}
                 /\ \A i \in 1..Len(events) : ~IsRequest(events[i])
                 /\ run[r].http = "none"

\* Requests are being issued and the run log exists with status running.
LogBeforeFetchingWitness ==
    /\ run[1].pc = "crawl"
    /\ run[1].created = 1
    /\ \E i \in 1..Len(run[1].events) : run[1].events[i].ev = "detail_request"
    /\ run[1].events[1].ev = "create_crawl_log"
    /\ crawl_logs[1].status = "running"

VARIABLES
    cc     \* one call of get_article_list or of crawl_category

crawlVars == <<cc>>

\* Valid links on a listing page whose dates and detail pages are chosen
\* freely.
MaxListed == 3

\* Listing pages with as many valid links as the list parser keeps, and one
\* more.
LongListings == {ListCap, ListCap + 1}

\* Values of max_count past MaxListed: the cap of the list parser, and the
\* service's default of 30.
LargeCounts == {ListCap, ListCap + 10}

\* _parse_article_list of a page with n valid links.
Candidates(c, n) == Truncate([j \in 1..n |-> ListingEntry(c, j)])

\* What http.get and _parse_article_list make of the page.
Parsed(c, pg) == [failed |-> pg.failed, n |-> IF pg.failed THEN 0 ELSE Len(Candidates(c, pg.n))]

CrawlPages ==
    {[failed |-> TRUE, n |-> 0, old |-> {}]}
        \cup UNION {{[failed |-> FALSE, n |-> n, old |-> o] : o \in SUBSET (1..n)} :
                        n \in 0..MaxListed}
        \cup {[failed |-> FALSE, n |-> n, old |-> {}] : n \in LongListings}

\* What the detail page of a candidate gives: a page that parses, no page,
\* or a page without a title.
DetailOutcomes == {"article", "fetch_none", "parse_none"}

UntitledPage == [GoodPage EXCEPT !.titles = <<>>]

\* get_article_detail: None when get_with_delay gave nothing, else the
\* parse of the page.
get_article_detail(url, category, outcome) ==
    IF outcome = "fetch_none" THEN NoArticle
    ELSE _parse_article_detail(IF outcome = "article" THEN GoodPage ELSE UntitledPage,
                               url, category)

Fetch(via, url) == [via |-> via, url |-> url]

\* _get_section_url(category)
SectionUrl(c) == [section |-> c]

CrawlerOff ==
    [call |-> "none", pc |-> "off", category |-> "", max_count |-> 0,
     include_content |-> FALSE, today_only |-> TRUE,
     page |-> [failed |-> TRUE, n |-> 0, old |-> {}],
     article_list |-> <<>>, j |-> 0, articles |-> <<>>, fetches |-> <<>>, details |-> <<>>]

\* get_article_list(category, max_count, today_only) or
\* crawl_category(category, max_articles, include_content) was called;
\* crawl_category calls get_article_list(category, max_articles).
CrawlerCalled(call, category, max_count, include_content, today_only, pg) ==
    [CrawlerOff EXCEPT !.call = call, !.pc = "list", !.category = category,
                       !.max_count = max_count, !.include_content = include_content,
                       !.today_only = today_only, !.page = pg]

CrawlInit ==
    \E call \in {"get_article_list", "crawl_category"}, pg \in CrawlPages,
       max_count \in (0..MaxListed) \cup LargeCounts, ic \in BOOLEAN, today_only \in BOOLEAN :
        /\ call = "crawl_category" => today_only
        /\ call = "get_article_list" => ~ic
        /\ ic => (pg.n <= MaxListed \/ max_count <= MaxListed)
        /\ cc = CrawlerCalled(call, "politics", max_count, ic, today_only, pg)

CrawlIdle == cc = CrawlerOff

\* html = await self.http.get(url); [] without html, else
\* self._parse_article_list(html, category)[:max_count].
ListStep ==
    /\ cc.pc = "list"
    /\ cc' = [cc EXCEPT
          !.article_list = get_article_list(cc.category, Parsed(cc.category, cc.page),
                                            cc.max_count),
          !.fetches = Append(@, Fetch("get", SectionUrl(cc.category))),
          !.j = 1,
          !.pc = IF cc.call = "get_article_list" THEN "returned" ELSE "loop"]

AfterDetailAppendAlways(articles, a) == Append(articles, a)

\* if article: articles.append(article)
AfterDetail(articles, a) == IF a # NoArticle THEN Append(articles, a) ELSE articles

\* One iteration of the loop with include_content: get_article_detail.
DetailStep ==
    /\ cc.pc = "loop"
    /\ cc.j <= Len(cc.article_list)
    /\ cc.include_content
    /\ \E outcome \in DetailOutcomes :
         LET item == cc.article_list[cc.j]
         IN  cc' = [cc EXCEPT
                 !.fetches = Append(@, Fetch("get_with_delay", item.url)),
                 !.details = Append(@, outcome),
                 !.articles = AfterDetail(@, get_article_detail(item.url, cc.category, outcome)),
                 !.j = @ + 1]

\* One iteration of the loop without include_content.
BasicStep ==
    /\ cc.pc = "loop"
    /\ cc.j <= Len(cc.article_list)
    /\ ~cc.include_content
    /\ cc' = [cc EXCEPT !.articles = Append(@, BasicArticle(cc.article_list[cc.j])),
                        !.j = @ + 1]

\* return articles
CrawlReturn ==
    /\ cc.pc = "loop"
    /\ cc.j > Len(cc.article_list)
    /\ cc' = [cc EXCEPT !.pc = "returned"]

\* The candidates tried so far whose detail page was fetched and parsed.
Fetched(k) == {m \in 1..k : cc.details[m] = "article"}

\* The candidate behind the i-th entry of the result.
KthFetched(i) ==
    CHOOSE k \in 1..Len(cc.details) :
        cc.details[k] = "article" /\ Cardinality(Fetched(k)) = i

\* C25: crawl_category with include_content makes, for each candidate in
\* listing order, exactly one leading-delay detail fetch; a candidate whose
\* fetch or parse gives nothing is skipped without ending the loop; the
\* result is the order-preserving subsequence of the candidates whose detail
\* page was fetched and parsed, and the candidates after a failed one are
\* still tried.
DetailSkipping ==
    (cc.call = "crawl_category" /\ cc.include_content /\ cc.pc \in {"loop", "returned"}) =>
        /\ Len(cc.details) = cc.j - 1
        /\ cc.fetches =
             <<Fetch("get", SectionUrl(cc.category))>>
                 \o [k \in 1..(cc.j - 1) |-> Fetch("get_with_delay", cc.article_list[k].url)]
        /\ Len(cc.articles) = Cardinality(Fetched(Len(cc.details)))
        /\ \A i \in 1..Len(cc.articles) :
             /\ cc.articles[i] # NoArticle
             /\ cc.articles[i].url = cc.article_list[KthFetched(i)].url
             /\ cc.articles[i].category = cc.category
        /\ cc.pc = "returned" => cc.j = Len(cc.article_list) + 1

\* Three candidates: the first page is not served, the second parses, the
\* third has no title; the result is the second candidate's article.
DetailSkippingWitness ==
    /\ cc.call = "crawl_category"
    /\ cc.include_content
    /\ cc.pc = "returned"
    /\ cc.details = <<"fetch_none", "article", "parse_none">>
    /\ Len(cc.articles) = 1
    /\ cc.articles[1].url = ArticleUrl("politics", 2)

\* C26: crawl_category without include_content issues one fetch, that of
\* the listing page, and returns one Article per candidate left after the
\* cut to max_articles, in listing order, with the candidate's title, URL
\* and category and with empty summary and content; for max_articles >= 0
\* it has min(max_articles, number of candidates, 20) entries.
BasicCrawl ==
    (cc.call = "crawl_category" /\ ~cc.include_content /\ cc.pc = "returned"
        /\ cc.max_count >= 0) =>
        /\ cc.fetches = <<Fetch("get", SectionUrl(cc.category))>>
        /\ Len(cc.articles) =
             (IF cc.page.failed THEN 0 ELSE Min(cc.max_count, Min(cc.page.n, ListCap)))
        /\ \A i \in 1..Len(cc.articles) :
             /\ cc.articles[i].title = ListingEntry(cc.category, i).title
             /\ cc.articles[i].url = ArticleUrl(cc.category, i)
             /\ cc.articles[i].category = cc.category
             /\ cc.articles[i].summary = <<>>
             /\ cc.articles[i].content = <<>>

\* A page with 21 valid links crawled with max_articles = 30: 20 articles.
BasicCrawlWitness ==
    /\ cc.call = "crawl_category"
    /\ ~cc.include_content
    /\ cc.pc = "returned"
    /\ cc.page.n = ListCap + 1
    /\ cc.max_count = ListCap + 10
    /\ Len(cc.articles) = ListCap
    /\ Len(cc.fetches) = 1

\* C28: get_article_list honours today_only: called with today_only (the
\* default) it returns only articles published today, and without it the
\* older ones too, up to max_count.
TodayOnlyHonoured ==
    (cc.call = "get_article_list" /\ cc.pc = "returned") =>
        /\ cc.today_only => \A i \in 1..Len(cc.article_list) : i \notin cc.page.old
        /\ ~cc.today_only =>
             Len(cc.article_list) = Min(cc.max_count, Len(Candidates(cc.category, cc.page.n)))

(***************************************************************************)
(* The entry points that take category tokens: trigger_crawl               *)
(* (src/backend/app/api/news_router.py) and the tools of call_tool          *)
(* (src/src/server.py).                                                     *)
(*                                                                         *)
(* A call is [tool, given, tokens, url]: `given` says whether the category  *)
(* argument was passed at all, `tokens` holds what was passed (one token    *)
(* for the tools that take a single category), `url` whether a URL was      *)
(* passed.  The outcome records what the call answered, the categories it   *)
(* went on to fetch for, and whether it led to a run log.                   *)
(***************************************************************************)

VARIABLES
    entry,     \* the call
    epc,       \* "input" before the call, "done" after it
    outcome    \* what the call did

entryVars == <<entry, epc, outcome>>

\* The longest list of tokens a call passes.
MaxTokens == 2

\* Tokens a caller may pass: members of the enum and others.
Tokens == {"politics", "it", "sports", "IT", ""}

\* Category(token) / CategoryEnum(token) does not raise ValueError.
IsCategory(t) == \E k \in 1..Len(AllCategories) : AllCategories[k] = t

AllValid(tokens) == \A i \in 1..Len(tokens) : IsCategory(tokens[i])

Rejected400 == [result |-> "error", fetched |-> <<>>, logged |-> FALSE]
Accepted(categories, logged) == [result |-> "ok", fetched |-> categories, logged |-> logged]

\* trigger_crawl: a list with a token outside the enum gives HTTP 400; no
\* list, or an empty one, stands for all categories.  The background task
\* calls crawl_all_categories, which creates the run log and fetches.
trigger_crawl(call) ==
    IF call.given /\ call.tokens # <<>>
      THEN (IF AllValid(call.tokens) THEN Accepted(call.tokens, TRUE) ELSE Rejected400)
      ELSE Accepted(AllCategories, TRUE)

\* crawl_news_by_category: the category defaults to "it".
crawl_news_by_category(call) ==
    LET category_str == IF call.given THEN call.tokens[1] ELSE "it"
    IN  IF IsCategory(category_str) THEN Accepted(<<category_str>>, FALSE) ELSE Rejected400

\* crawl_daily_news
crawl_daily_news(call) ==
    IF call.given /\ call.tokens # <<>>
      THEN (IF AllValid(call.tokens) THEN Accepted(call.tokens, FALSE) ELSE Rejected400)
      ELSE Accepted(AllCategories, FALSE)

\* get_article_detail: an error without a URL; a token outside the enum is
\* replaced by Category.IT.
tool_get_article_detail(call) ==
    LET category_str == IF call.given THEN call.tokens[1] ELSE "it"
    IN  IF ~call.url THEN Rejected400
        ELSE IF IsCategory(category_str) THEN Accepted(<<category_str>>, FALSE)
        ELSE Accepted(<<"it">>, FALSE)

Call(tool, given, tokens, url) == [tool |-> tool, given |-> given, tokens |-> tokens, url |-> url]

\* The calls of the model.
Calls(n) ==
    {Call(t, FALSE, <<>>, FALSE) : t \in {"trigger_crawl", "crawl_daily_news", "crawl_news_by_category"}}
        \cup {Call(t, TRUE, ts, FALSE) :
                t \in {"trigger_crawl", "crawl_daily_news"}, ts \in SeqsUpTo(Tokens, n)}
        \cup {Call("crawl_news_by_category", TRUE, <<t>>, FALSE) : t \in Tokens}
        \cup {Call("get_article_detail", FALSE, <<>>, u) : u \in BOOLEAN}
        \cup {Call("get_article_detail", TRUE, <<t>>, u) : t \in Tokens, u \in BOOLEAN}

NoOutcome == [result |-> "none", fetched |-> <<>>, logged |-> FALSE]

EntryInit ==
    /\ entry \in Calls(MaxTokens)
    /\ epc = "input"
    /\ outcome = NoOutcome

EntryIdle ==
    /\ entry = Call("none", FALSE, <<>>, FALSE)
    /\ epc = "input"
    /\ outcome = NoOutcome

Answer(tool, result) ==
    /\ epc = "input"
    /\ entry.tool = tool
    /\ outcome' = result
    /\ epc' = "done"
    /\ UNCHANGED entry

TriggerCrawl == Answer("trigger_crawl", trigger_crawl(entry))
CrawlNewsByCategory == Answer("crawl_news_by_category", crawl_news_by_category(entry))
CrawlDailyNews == Answer("crawl_daily_news", crawl_daily_news(entry))
GetArticleDetail == Answer("get_article_detail", tool_get_article_detail(entry))

\* C13: at every entry point a call that passes a token outside the enum
\* is answered with an error, fetches nothing and leads to no run log.
InputValidation ==
    (epc = "done" /\ entry.given /\ ~AllValid(entry.tokens)) =>
        /\ outcome.result = "error"
        /\ outcome.fetched = <<>>
        /\ ~outcome.logged

(***************************************************************************)
(* Specifications.                                                         *)
(***************************************************************************)

vars == <<httpVars, listVars, dateVars, detailVars, storeVars, svcVars, entryVars, crawlVars>>

HttpIdle ==
    /\ client = FALSE
    /\ max_retries = 3
    /\ hpc = "idle"
    /\ attempt = 0
    /\ trace = <<>>
    /\ hresult = Absent
    /\ hraised = Absent
    /\ calls = 0
    /\ scoped = FALSE

StoreIdle == StoreInit

\* One invocation of crawl_all_categories.
Init == (SvcInit \/ SingleInit) /\ SvcStoreInit /\ HttpIdle /\ ListIdle /\ DateIdle /\ DetailIdle /\ EntryIdle /\ CrawlIdle

SvcFrame == UNCHANGED <<httpVars, listVars, dateVars, detailVars, entryVars, crawlVars, single>>

SingleFrame == UNCHANGED <<httpVars, listVars, dateVars, detailVars, entryVars, crawlVars>>

\* One step of invocation r of crawl_all_categories.
RunStep(r) ==
    \/ CreateCrawlLog(r) /\ SvcFrame
    \/ EnterHttp(r) /\ SvcFrame
    \/ CrawlCategory(r) /\ SvcFrame
    \/ CrawlRaises(r) /\ SvcFrame
    \/ ExitHttp(r) /\ SvcFrame
    \/ PersistCategory(r) /\ SvcFrame
    \/ UpdateSuccess(r) /\ SvcFrame
    \/ HandleException(r) /\ SvcFrame

Next ==
    \/ \E r \in Runs : RunStep(r)
    \/ SingleEnter /\ SingleFrame
    \/ SingleCrawl /\ SingleFrame
    \/ SingleCrawlRaises /\ SingleFrame
    \/ SingleExit /\ SingleFrame
    \/ SingleUpsert /\ SingleFrame
    \/ SingleReturn /\ SingleFrame

Spec == Init /\ [][Next]_vars

\* Two invocations of crawl_all_categories that interleave at their await
\* points.
InitConc == ConcInit /\ SvcStoreInit /\ HttpIdle /\ ListIdle /\ DateIdle /\ DetailIdle /\ EntryIdle /\ CrawlIdle

NextConc == \E r \in Runs : RunStep(r)

SpecConc == InitConc /\ [][NextConc]_vars

\* One client and its calls of get.
HttpFrame == UNCHANGED <<listVars, dateVars, detailVars, storeVars, svcVars, entryVars, crawlVars>>

NextHttp ==
    \/ AEnter /\ HttpFrame
    \/ AExit /\ HttpFrame
    \/ GetCall /\ HttpFrame
    \/ Attempt /\ HttpFrame
    \/ Exhausted /\ HttpFrame

InitHttp == HttpInit /\ ListIdle /\ DateIdle /\ DetailIdle /\ StoreIdle /\ SvcIdle /\ EntryIdle /\ CrawlIdle

SpecHttp == InitHttp /\ [][NextHttp]_vars

\* One call of _parse_article_list.
NextList == ParseList /\ UNCHANGED <<httpVars, dateVars, detailVars, storeVars, svcVars, entryVars, crawlVars>>

InitList == ListInit /\ HttpIdle /\ DateIdle /\ DetailIdle /\ StoreIdle /\ SvcIdle /\ EntryIdle /\ CrawlIdle

SpecList == InitList /\ [][NextList]_vars

\* One call of _parse_datetime.
NextDate == ParseDatetime /\ UNCHANGED <<httpVars, listVars, detailVars, storeVars, svcVars, entryVars, crawlVars>>

InitDate == DateInit /\ HttpIdle /\ ListIdle /\ DetailIdle /\ StoreIdle /\ SvcIdle /\ EntryIdle /\ CrawlIdle

SpecDate == InitDate /\ [][NextDate]_vars

\* One call of _parse_article_detail.
NextDetail == ParseDetail /\ UNCHANGED <<httpVars, listVars, dateVars, storeVars, svcVars, entryVars, crawlVars>>

InitDetail == DetailInit /\ HttpIdle /\ ListIdle /\ DateIdle /\ StoreIdle /\ SvcIdle /\ EntryIdle /\ CrawlIdle

SpecDetail == InitDetail /\ [][NextDetail]_vars

\* The repository's upserts, called in any order.
StoreFrame == UNCHANGED <<httpVars, listVars, dateVars, detailVars, svcVars, entryVars, crawlVars>>

NextStore ==
    \/ UpsertArticle /\ StoreFrame
    \/ BulkUpsertArticles /\ StoreFrame

InitStore == StoreInit /\ HttpIdle /\ ListIdle /\ DateIdle /\ DetailIdle /\ SvcIdle /\ EntryIdle /\ CrawlIdle

SpecStore == InitStore /\ [][NextStore]_vars

\* One call of an entry point.
EntryFrame == UNCHANGED <<httpVars, listVars, dateVars, detailVars, storeVars, svcVars, crawlVars>>

NextEntry ==
    \/ TriggerCrawl /\ EntryFrame
    \/ CrawlNewsByCategory /\ EntryFrame
    \/ CrawlDailyNews /\ EntryFrame
    \/ GetArticleDetail /\ EntryFrame

InitEntry == EntryInit /\ HttpIdle /\ ListIdle /\ DateIdle /\ DetailIdle /\ StoreIdle /\ SvcIdle /\ CrawlIdle

SpecEntry == InitEntry /\ [][NextEntry]_vars

\* One call of the crawler.
CrawlFrame ==
    UNCHANGED <<httpVars, listVars, dateVars, detailVars, storeVars, svcVars, entryVars>>

NextCrawl ==
    \/ ListStep /\ CrawlFrame
    \/ DetailStep /\ CrawlFrame
    \/ BasicStep /\ CrawlFrame
    \/ CrawlReturn /\ CrawlFrame

InitCrawl ==
    CrawlInit /\ HttpIdle /\ ListIdle /\ DateIdle /\ DetailIdle /\ StoreIdle /\ SvcIdle /\ EntryIdle

SpecCrawl == InitCrawl /\ [][NextCrawl]_vars

\* Every component under the scheduling of the event loop: a coroutine that
\* can take its next step is resumed, and every call it awaits returns or
\* raises.  A behaviour runs one component: one client serving calls of get,
\* one invocation of crawl_all_categories, or one call of the crawler.
LiveSvcInit ==
    /\ \E cs \in {<<>>, <<"politics">>, <<"politics", "economy">>}, ic \in BOOLEAN :
         run = [r \in Runs |-> IF r = 1 THEN Called(cs, 1, ic) ELSE Off]
    /\ crawl_logs = <<>>
    /\ single = SingleOff

InitLive ==
    \/ InitHttp
    \/ LiveSvcInit /\ SvcStoreInit /\ HttpIdle /\ ListIdle /\ DateIdle /\ DetailIdle /\ EntryIdle /\ CrawlIdle
    \/ InitCrawl

NextLive ==
    \/ SvcIdle /\ CrawlIdle /\ NextHttp
    \/ NextConc
    \/ NextCrawl

SpecLive ==
    /\ InitLive
    /\ [][NextLive]_vars
    /\ WF_vars((Attempt \/ Exhausted) /\ HttpFrame)
    /\ WF_vars(NextConc)
    /\ WF_vars(NextCrawl)

\* C30: every call of get that entered the retry loop eventually returns,
\* whatever the responses and transport errors; with max_retries = 0 it has
\* returned absent without a request; and every invocation of crawl_category
\* and of crawl_all_categories eventually returns or raises.
Termination ==
    /\ (hpc = "loop") ~> (hpc = "returned")
    /\ [](hpc = "returned" /\ max_retries = 0 => Requests = <<>> /\ hresult = Absent)
    /\ (cc.pc \notin {"off", "returned"}) ~> (cc.pc = "returned")
    /\ \A r \in Runs : (run[r].pc # "off") ~> Finished(r)

TerminationWitness ==
    /\ hpc = "returned"
    /\ max_retries = MaxRetriesBound
    /\ Len(Requests) = max_retries
    /\ \A i \in 1..Len(Requests) : Requests[i].outcome \in {"429", "5xx", "ConnectError", "TimeoutException"}
    /\ hresult = Absent

====
